---- MODULE Spec2Model ----
(***************************************************************************)
(* Verification model of the trading-app core (nirre55/trading-app):       *)
(*   - TradeExecutor.execute_atomic_trade   (src/src/trading/trade_executor.py) *)
(*   - TradingApp.run_crash_recovery        (src/src/core/app.py)          *)
(*   - EventBus.emit                        (src/src/core/event_bus.py)    *)
(*   - StateMachine                         (src/src/core/state_machine.py)*)
(*   - RateLimiter                      (src/src/exchange/rate_limiter.py) *)
(*   - CcxtConnector.watch_candles    (src/src/exchange/ccxt_connector.py) *)
(*   - TradeExecutor._handle_trade_closed   (src/src/trading/trade_executor.py) *)
(*   - TradingApp.run_live, shutdown part   (src/src/core/app.py)          *)
(*   - StateManager                    (src/src/core/state_manager.py)     *)
(*   - LockFile                             (src/src/core/lock.py)         *)
(*   - RateLimiter.execute              (src/src/exchange/rate_limiter.py) *)
(*   - EventBus.emit called by two tasks    (src/src/core/event_bus.py)    *)
(*   - BaseStrategy.on_candle               (src/src/strategies/base.py)   *)
(* Each component has its own specification (SpecTrade, SpecTradeCancel,   *)
(* SpecRecovery, SpecBus, SpecBusTasks, SpecFSM, SpecStrategyLive,         *)
(* SpecLimiter, SpecLimiterLive, SpecExecute, SpecConnector, SpecClose,    *)
(* SpecShutdown, SpecShutdownLive, SpecRunLive, SpecState, SpecLock); the  *)
(* variables of the other components stay at their initial value.          *)
(***************************************************************************)
EXTENDS Integers, Sequences, FiniteSets, TLC

VARIABLES
    \* ---- TradeExecutor.execute_atomic_trade ----
    te_in,        \* arguments and configuration of the call
    te_pc,        \* position of the coroutine
    te_entry,     \* entry_order: "none" (None) or [status, price]
    te_prices,    \* [entry, sl, tp] recomputed on the real fill, or "none"
    te_calls,     \* connector calls made so far, in order
    te_events,    \* event types emitted on the bus, in order
    te_result,    \* "pending" | "record" | "None" | "raised"
    te_fail,      \* failure met after the entry order was placed ("none" if none)
    ex_pos,       \* exchange: the position opened by this call is open
    ex_sl,        \* exchange: a live stop order protects that position
    \* ---- TradingApp.run_crash_recovery ----
    rc_file,      \* state.json at startup: [kind, active_trades]
    rc_saved,     \* what state_manager.save wrote during the recovery
    rc_state,     \* state.active_trades of the loaded AppState
    rc_pc,        \* position of the coroutine
    rc_positions, \* local positions (result of fetch_positions)
    rc_orders,    \* local open_orders (result of fetch_open_orders)
    rc_open,      \* local open_position: index into rc_positions, 0 for None
    rc_ids,       \* list(state.active_trades), the copy the loop iterates
    rc_i,         \* index in rc_ids of the current iteration
    rc_calls,     \* connector calls made so far, in order
    rc_events,    \* event types emitted on the bus, in order
    rc_result,    \* "pending" | "None" | "state" | "raised"
    rc_via,       \* "normal" | "timeout" once a state is returned
    rx_positions, \* exchange: positions of the pair
    rx_orders,    \* exchange: open orders of the pair
    \* ---- EventBus ----
    eb_handlers,       \* _handlers: event type -> list of handlers
    eb_emitting_error, \* _emitting_error
    eb_stack,          \* active emit() calls, innermost last
    eb_log,            \* what happened on the bus, in order
    eb_nemits,         \* emit() calls made by publishers and handlers
    eb_noffs,          \* off() calls made
    \* ---- StateMachine ----
    sm_state,                 \* _state
    sm_conditions_met,        \* _conditions_met
    sm_last_condition_candle, \* _last_condition_candle, NoCandle for None
    sm_current_trade_id,      \* _current_trade_id, "none" for None
    sm_emitted,               \* event types the last call published on the bus
    sm_last,                  \* the last call: [op, direction, raised, before]
    sm_trace,                 \* the calls that returned normally, in order
    \* ---- RateLimiter ----
    rl_cfg,         \* _config: [burst_size, rate, max_retries]
    rl_tokens,      \* _tokens, in units of 1/TicksPerSecond of a token
    rl_elapsed,     \* loop.time() - _last_refill, in ticks
    rl_initialized, \* _initialized
    rl_waiters,     \* _waiters in arrival order (the position stands for seq)
    rl_retry_after, \* _retry_after_delay in ticks, NoDelay for None
    rl_tasks,       \* the callers of acquire: [status, prio, done, retry_count, remaining]
    rl_now,         \* clock reading since the first acquire, stops at MaxTime
    rl_admitted,    \* tokens handed out so far, stops at MaxAdmitted
    rl_ncancels,    \* tasks cancelled so far
    rl_last,        \* what the last step of the limiter did
    \* ---- CcxtConnector.watch_candles / _reconnect ----
    cx_pc,                 \* position of the streaming coroutine
    cx_attempt,            \* loop variable "attempt" of _reconnect
    cx_is_connected,       \* _is_connected
    cx_reconnect_attempts, \* _reconnect_attempts
    cx_positions,          \* "positions" of the audit (open positions fetched)
    cx_orders,             \* "open_orders" of the audit
    cx_trace,              \* calls, sleeps, events and raise since the last stream failure
    cx_result,             \* "running", or the error raised out of watch_candles
    cx_ndisconnects,       \* stream failures so far
    \* ---- TradeExecutor._handle_trade_closed ----
    tc_open_trades,   \* _open_trades: trade id -> capital_before of its record
    tc_closed_trades, \* _closed_trades: trade id -> TradeResult
    tc_hits,          \* the invocations of the handler, in order of arrival
    tc_trace,         \* connector calls and events of the handler, in order
    \* ---- TradingApp.run_live, from the main loop to the end ----
    ap_pc,           \* position of the run_live coroutine
    ap_candle_task,  \* candle_task: "running" | "failed" | "cancelling" | "cancelled"
    ap_backup_task,  \* backup_task: "running" | "cancelling" | "cancelled"
    ap_stop,         \* stop request seen by the loop: "none" | "signal" | "stop_flag"
    ap_has_trades,   \* app_state.active_trades is not empty
    ap_files,        \* files present in data_dir, among "trading.lock" and "stop.flag"
    ap_steps,        \* what run_live did since the stop request, in order
    ap_error,        \* exception propagating through the finally blocks, "none" if none
    ap_result,       \* "pending" | "returned" | "raised"
    \* ---- StateManager and the bus handlers of run_live that save ----
    st_app_state,    \* app_state of run_live: [strategy_states, active_trades]
    st_path,         \* state.json on disk: "missing" or [data, written, size]
    st_tmp,          \* state.tmp on disk: "missing" or [data, written, size]
    st_pc,           \* position inside StateManager.save, "idle" outside
    st_previous,     \* the AppState of the last save that returned, as load's result
    st_loaded,       \* result of the last load: "pending" | "None" | an AppState
    st_nsaves,       \* saves begun so far
    \* ---- LockFile ----
    lk_file,         \* the lock file: [kind, pid]
    lk_proc,         \* per process: [pc, pid, result, before]
    \* ---- RateLimiter.execute ----
    re_pc,                \* position of the coroutine: "acquire" | "call" | "done"
    re_priority,          \* priority
    re_max_retries,       \* _config.max_retries
    re_retry_count,       \* retry_count
    re_retry_after_delay, \* _retry_after_delay, NoDelay for None
    re_trace,             \* acquires and attempts of the wrapped call, in order
    re_result             \* "pending" | "returned" | the exception raised

\* a strategy (BaseStrategy / ExampleStrategy) driving its StateMachine
VARIABLES
    sy_config,            \* StrategyConfig: conditions, timeout_candles, max_gap_candles
    sy_state,             \* StateMachine._state
    sy_conditions_met,    \* StateMachine._conditions_met
    sy_gap,               \* _candle_count - _last_condition_candle, or NoGap
    sy_trade,             \* what became of the last signal
    sy_ignored            \* candles ignored since the last signal

\* EventBus shared by several tasks
VARIABLES
    bt_handlers,          \* "ordinary" | "error" -> number of registered handlers
    bt_emitting_error,    \* EventBus._emitting_error
    bt_stack,             \* task -> the emit calls it is inside, outermost first
    bt_failures,          \* the handler exceptions caught so far
    bt_nemits             \* task -> number of publications started

te_vars == <<te_in, te_pc, te_entry, te_prices, te_calls, te_events,
             te_result, te_fail, ex_pos, ex_sl>>

rc_vars == <<rc_file, rc_saved, rc_state, rc_pc, rc_positions, rc_orders, rc_open, rc_ids, rc_i,
             rc_calls, rc_events, rc_result, rc_via, rx_positions, rx_orders>>

eb_vars == <<eb_handlers, eb_emitting_error, eb_stack, eb_log, eb_nemits, eb_noffs>>

sm_vars == <<sm_state, sm_conditions_met, sm_last_condition_candle, sm_current_trade_id,
             sm_emitted, sm_last, sm_trace>>

rl_vars == <<rl_cfg, rl_tokens, rl_elapsed, rl_initialized, rl_waiters, rl_retry_after,
             rl_tasks, rl_now, rl_admitted, rl_ncancels, rl_last>>

cx_vars == <<cx_pc, cx_attempt, cx_is_connected, cx_reconnect_attempts, cx_positions,
             cx_orders, cx_trace, cx_result, cx_ndisconnects>>

tc_vars == <<tc_open_trades, tc_closed_trades, tc_hits, tc_trace>>

ap_vars == <<ap_pc, ap_candle_task, ap_backup_task, ap_stop, ap_has_trades, ap_files,
             ap_steps, ap_error, ap_result>>

st_vars == <<st_app_state, st_path, st_tmp, st_pc, st_previous, st_loaded, st_nsaves>>

lk_vars == <<lk_file, lk_proc>>

re_vars == <<re_pc, re_priority, re_max_retries, re_retry_count, re_retry_after_delay,
             re_trace, re_result>>

sy_vars == <<sy_config, sy_state, sy_conditions_met, sy_gap, sy_trade, sy_ignored>>

bt_vars == <<bt_handlers, bt_emitting_error, bt_stack, bt_failures, bt_nemits>>

vars == <<te_vars, rc_vars, eb_vars, sm_vars, rl_vars, cx_vars, tc_vars, ap_vars, st_vars, lk_vars, re_vars, bt_vars, sy_vars>>

NoneVal == "none"

\* absent price (price=None of OrderInfo / place_order)
NoPrice == -1

\* entry_order = None
NoOrder == [status |-> "none", price |-> NoPrice]

\* prices not computed yet
NoPrices == [entry |-> NoPrice, tp |-> NoPrice, sl |-> NoPrice]

\* outcome of _calculate_tp_sl when it raises ValueError
CalcError == [tp |-> NoPrice, sl |-> NoPrice]

Abs(x) == IF x < 0 THEN -x ELSE x

Min(a, b) == IF a <= b THEN a ELSE b

Last(s) == s[Len(s)]

(***************************************************************************)
(* Enumerations of src/src/models/exchange.py and src/src/models/trade.py  *)
(***************************************************************************)
OrderStatus == {"PENDING", "FILLED", "CANCELLED", "FAILED"}

TradeDirection == {"LONG", "SHORT"}

\* An order returned with one of these statuses rests on / was executed by
\* the exchange; FAILED and CANCELLED orders (and calls that raise) have no
\* effect on the exchange.
Effective(status) == status \in {"PENDING", "FILLED"}

(***************************************************************************)
(* Bounds of the trade model.  Prices are integers counted in half ticks   *)
(* so that rounding to the tick size is observable.                        *)
(***************************************************************************)
TickSize == 2

SignalPrices == {0, 20, 21}

StopPrices == {0, 17, 20, 24}

FillPrices == {19, 22}

Quantities == {0, 1}

RiskRewards == {1, 2}

ConfigLeverages == {5, 20}

MaxLeverage == 10

(***************************************************************************)
(* OrderValidator.round_price: Decimal.quantize(tick_size, ROUND_HALF_UP)  *)
(* (ties rounded away from zero, also for negative values).                *)
(***************************************************************************)
RoundHalfUp(p, tick) ==
    IF p >= 0 THEN ((2 * p + tick) \div (2 * tick)) * tick
    ELSE -(((2 * (-p) + tick) \div (2 * tick)) * tick)

round_price(p) == RoundHalfUp(p, TickSize)

(***************************************************************************)
(* TradeExecutor._calculate_tp_sl: "error" stands for the ValueError       *)
(* raised when the stop distance is zero.                                  *)
(***************************************************************************)
\* faulty variant: the levels are taken from the signal price
calculate_tp_sl_from_signal(direction, real_entry_price, signal_price, signal_sl_price, rr) ==
    LET sl_distance == Abs(signal_price - signal_sl_price) IN
    IF sl_distance = 0 THEN CalcError
    ELSE IF direction = "LONG"
         THEN [tp |-> signal_price + sl_distance * rr,
               sl |-> signal_price - sl_distance]
         ELSE [tp |-> signal_price - sl_distance * rr,
               sl |-> signal_price + sl_distance]

calculate_tp_sl(direction, real_entry_price, signal_price, signal_sl_price, rr) ==
    LET sl_distance == Abs(signal_price - signal_sl_price) IN
    IF sl_distance = 0 THEN CalcError
    ELSE IF direction = "LONG"
         THEN [tp |-> real_entry_price + sl_distance * rr,
               sl |-> real_entry_price - sl_distance]
         ELSE [tp |-> real_entry_price - sl_distance * rr,
               sl |-> real_entry_price + sl_distance]

\* faulty variant: a CANCELLED stop-loss is taken for an active one
verify_sl_status_failed_only(status) == status /= "FAILED"

\* TradeExecutor._verify_sl_status
verify_sl_status(status) == status \notin {"FAILED", "CANCELLED"}

entry_side(direction) == IF direction = "LONG" THEN "BUY" ELSE "SELL"

close_side(direction) == IF direction = "LONG" THEN "SELL" ELSE "BUY"

effective_leverage(cfg, mx) == Min(cfg, mx)

\* faulty variant: only an entry already FILLED is flattened
entry_executed_filled_only(entry) == entry /= NoOrder /\ entry.status = "FILLED"

\* faulty variant: any returned entry order is flattened
entry_executed_when_bound(entry) == entry /= NoOrder

\* guard of _close_position_on_failure: the entry was really executed
entry_executed(entry) == entry /= NoOrder /\ entry.status /= "FAILED"

Call(op, side, type, price, outcome) ==
    [op |-> op, side |-> side, type |-> type, price |-> price, outcome |-> outcome]

(***************************************************************************)
(* EventBus (src/src/core/event_bus.py)                                    *)
(* One task publishes; the bus is re-entered only by the handlers it is    *)
(* awaiting, so the active emit() calls form a stack.                      *)
(***************************************************************************)
MaxHandlers == 2

MaxEmits == 2

MaxRaises == 3

MaxOffs == 1

\* a handler: the k-th coroutine function subscribed for type t
Handler(t, k) == [t |-> t, k |-> k]

NoHandler == Handler("none", 0)

ERROR_RECOVERABLE == "error.recoverable"

\* event types handlers are registered for
EventTypes == {"candle.closed", "trade.opened", ERROR_RECOVERABLE}

\* what a caller of emit() publishes: the connector publishes candle.closed
\* from outside any dispatch, a handler of candle.closed (strategy, then
\* executor) publishes trade.opened; error.recoverable is published by the
\* bus itself only (event_bus.py 51 is its single emitter)
PublishedTypes(stack) ==
    IF stack = <<>> THEN {"candle.closed"}
    ELSE IF stack[Len(stack)].type = "candle.closed" THEN {"trade.opened"}
    ELSE {}

Frame(id, type, hs, src) ==
    [id |-> id, type |-> type, hs |-> hs, i |-> 0, phase |-> "loop", src |-> src]

LogEntry(ev, f, type, h, reg, src) ==
    [ev |-> ev, f |-> f, type |-> type, h |-> h, reg |-> reg, src |-> src]

\* __init__ (lines 21-23)
EBInit ==
    /\ eb_handlers = [t \in EventTypes |-> <<>>]
    /\ eb_emitting_error = FALSE
    /\ eb_stack = <<>>
    /\ eb_log = <<>>
    /\ eb_nemits = 0
    /\ eb_noffs = 0

EBIdle == EBInit

\* the bus API is called by a component outside any dispatch or by the
\* handler that is currently running
CanCallBus == IF eb_stack = <<>> THEN TRUE ELSE Last(eb_stack).phase = "handler"

SetTop(stack, frame) == [stack EXCEPT ![Len(stack)] = frame]

Pop(stack) == SubSeq(stack, 1, Len(stack) - 1)

\* line 34: handlers = list(self._handlers.get(event_type, []))
handlers_snapshot(type) == eb_handlers[type]

\* faulty variant: the dispatch loop stops after the first handler
loop_done_after_first(frame) == frame.i >= Min(1, Len(frame.hs))

\* line 36: the for loop is exhausted
loop_done(frame) == frame.i >= Len(frame.hs)

\* faulty variant: the exception is never reported
should_report_never(emitting_error) == FALSE

\* lines 41-42: an exception is reported unless an error is being emitted
should_report(emitting_error) == ~emitting_error

\* faulty variant: the flag is left set
emitting_error_left_set == TRUE

\* lines 52-53: finally: self._emitting_error = False
emitting_error_after_dispatch == FALSE

\* the handler a component subscribes: one not yet subscribed for the type
NewHandler(t, q) ==
    Handler(t, CHOOSE n \in 1..MaxHandlers : \A k \in 1..Len(q) : q[k].k /= n)

NumRaises == Len(SelectSeq(eb_log, LAMBDA e : e.ev = "raise"))

\* on(event_type, handler), lines 25-30; the components subscribe while they
\* are wired at startup, before anything is published
EBOn ==
    /\ eb_stack = <<>>
    /\ eb_nemits = 0
    /\ \E t \in EventTypes :
        /\ Len(eb_handlers[t]) < MaxHandlers
        /\ eb_handlers' = [eb_handlers EXCEPT ![t] = Append(@, NewHandler(t, @))]
    /\ UNCHANGED <<eb_emitting_error, eb_stack, eb_log, eb_nemits, eb_noffs>>

\* list comprehension of off(): every occurrence of the handler is dropped
Without(q, h) == SelectSeq(q, LAMBDA x : x /= h)

\* off(event_type, handler), lines 55-65
EBOff ==
    /\ CanCallBus
    /\ eb_noffs < MaxOffs
    /\ \E t \in EventTypes :
        \E k \in 1..Len(eb_handlers[t]) :
           eb_handlers' = [eb_handlers EXCEPT ![t] = Without(@, eb_handlers[t][k])]
    /\ eb_noffs' = eb_noffs + 1
    /\ UNCHANGED <<eb_emitting_error, eb_stack, eb_log, eb_nemits>>

\* emit(event_type, payload) called by a publisher or by a running handler,
\* lines 32-35
EBEmit ==
    /\ CanCallBus
    /\ eb_nemits < MaxEmits
    /\ \E t \in PublishedTypes(eb_stack) :
        LET src == IF eb_stack = <<>> THEN "publisher" ELSE "handler"
            id == Len(SelectSeq(eb_log, LAMBDA e : e.ev = "emit")) + 1
        IN /\ eb_stack' = Append(eb_stack, Frame(id, t, handlers_snapshot(t), src))
           /\ eb_log' = Append(eb_log,
                  LogEntry("emit", id, t, NoHandler, eb_handlers[t], src))
    /\ eb_nemits' = eb_nemits + 1
    /\ UNCHANGED <<eb_handlers, eb_emitting_error, eb_noffs>>

\* lines 36-38: the next handler of the snapshot is awaited
EBInvoke ==
    /\ eb_stack /= <<>>
    /\ LET top == Last(eb_stack) IN
        /\ top.phase = "loop"
        /\ ~loop_done(top)
        /\ eb_stack' = SetTop(eb_stack, [top EXCEPT !.i = top.i + 1, !.phase = "handler"])
        /\ eb_log' = Append(eb_log,
               LogEntry("call", top.id, top.type, top.hs[top.i + 1], <<>>, top.src))
    /\ UNCHANGED <<eb_handlers, eb_emitting_error, eb_nemits, eb_noffs>>

\* the awaited handler returns normally
EBHandlerReturn ==
    /\ eb_stack /= <<>>
    /\ LET top == Last(eb_stack) IN
        /\ top.phase = "handler"
        /\ eb_stack' = SetTop(eb_stack, [top EXCEPT !.phase = "loop"])
        /\ eb_log' = Append(eb_log,
               LogEntry("ok", top.id, top.type, top.hs[top.i], <<>>, top.src))
    /\ UNCHANGED <<eb_handlers, eb_emitting_error, eb_nemits, eb_noffs>>

\* lines 39-51: the awaited handler raises an Exception; it is swallowed when
\* an error is being emitted, otherwise the flag is set and error.recoverable
\* is emitted on the same bus
EBHandlerRaise ==
    /\ eb_stack /= <<>>
    /\ LET top == Last(eb_stack)
           raised == LogEntry("raise", top.id, top.type, top.hs[top.i], <<>>, top.src)
           id == Len(SelectSeq(eb_log, LAMBDA e : e.ev = "emit")) + 1
       IN
        /\ top.phase = "handler"
        /\ NumRaises < MaxRaises
        /\ IF should_report(eb_emitting_error)
           THEN /\ eb_emitting_error' = TRUE
                /\ eb_stack' = Append(SetTop(eb_stack, [top EXCEPT !.phase = "except"]),
                                      Frame(id, ERROR_RECOVERABLE,
                                            handlers_snapshot(ERROR_RECOVERABLE), "except"))
                /\ eb_log' = eb_log \o
                      <<raised,
                        LogEntry("emit", id, ERROR_RECOVERABLE, NoHandler,
                                 eb_handlers[ERROR_RECOVERABLE], "except")>>
           ELSE /\ eb_emitting_error' = eb_emitting_error
                /\ eb_stack' = SetTop(eb_stack, [top EXCEPT !.phase = "loop"])
                /\ eb_log' = Append(eb_log, raised)
    /\ UNCHANGED <<eb_handlers, eb_nemits, eb_noffs>>

\* the for loop is over and emit() returns: to the except clause that
\* published the error (whose finally resets the flag, lines 52-53), to the
\* handler that published the event, or to the publisher
EBReturn ==
    /\ eb_stack /= <<>>
    /\ LET top == Last(eb_stack)
           rest == Pop(eb_stack)
       IN
        /\ top.phase = "loop"
        /\ loop_done(top)
        /\ eb_log' = Append(eb_log,
               LogEntry("ret", top.id, top.type, NoHandler, <<>>, top.src))
        /\ IF top.src = "except"
           THEN /\ eb_emitting_error' = emitting_error_after_dispatch
                /\ eb_stack' = SetTop(rest, [Last(rest) EXCEPT !.phase = "loop"])
           ELSE /\ eb_emitting_error' = eb_emitting_error
                /\ eb_stack' = rest
    /\ UNCHANGED <<eb_handlers, eb_nemits, eb_noffs>>

EBNext ==
    \/ (EBOn /\ UNCHANGED <<te_vars, rc_vars, sm_vars, rl_vars, cx_vars, tc_vars, ap_vars, st_vars, lk_vars, re_vars, bt_vars, sy_vars>>)
    \/ (EBOff /\ UNCHANGED <<te_vars, rc_vars, sm_vars, rl_vars, cx_vars, tc_vars, ap_vars, st_vars, lk_vars, re_vars, bt_vars, sy_vars>>)
    \/ (EBEmit /\ UNCHANGED <<te_vars, rc_vars, sm_vars, rl_vars, cx_vars, tc_vars, ap_vars, st_vars, lk_vars, re_vars, bt_vars, sy_vars>>)
    \/ (EBInvoke /\ UNCHANGED <<te_vars, rc_vars, sm_vars, rl_vars, cx_vars, tc_vars, ap_vars, st_vars, lk_vars, re_vars, bt_vars, sy_vars>>)
    \/ (EBHandlerReturn /\ UNCHANGED <<te_vars, rc_vars, sm_vars, rl_vars, cx_vars, tc_vars, ap_vars, st_vars, lk_vars, re_vars, bt_vars, sy_vars>>)
    \/ (EBHandlerRaise /\ UNCHANGED <<te_vars, rc_vars, sm_vars, rl_vars, cx_vars, tc_vars, ap_vars, st_vars, lk_vars, re_vars, bt_vars, sy_vars>>)
    \/ (EBReturn /\ UNCHANGED <<te_vars, rc_vars, sm_vars, rl_vars, cx_vars, tc_vars, ap_vars, st_vars, lk_vars, re_vars, bt_vars, sy_vars>>)

(***************************************************************************)
(* Initial state of one call of execute_atomic_trade.                      *)
(***************************************************************************)
TEInit ==
    /\ te_in \in [direction : TradeDirection,
                  quantity : Quantities,
                  signal_price : SignalPrices,
                  sl_price : StopPrices,
                  pair_ok : BOOLEAN,
                  rules_loaded : BOOLEAN,
                  leverage : ConfigLeverages,
                  rr : RiskRewards]
    /\ te_pc = "validate"
    /\ te_entry = NoOrder
    /\ te_prices = NoPrices
    /\ te_calls = <<>>
    /\ te_events = <<>>
    /\ te_result = "pending"
    /\ te_fail = "none"
    /\ ex_pos = FALSE
    /\ ex_sl = FALSE

\* the single quiescent state the executor has under the other specifications
TEIdle ==
    /\ te_in = [direction |-> "LONG", quantity |-> 1, signal_price |-> 20,
                sl_price |-> 17, pair_ok |-> TRUE, rules_loaded |-> TRUE,
                leverage |-> 5, rr |-> 1]
    /\ te_pc = "done"
    /\ te_entry = NoOrder
    /\ te_prices = NoPrices
    /\ te_calls = <<>>
    /\ te_events = <<>>
    /\ te_result = "pending"
    /\ te_fail = "none"
    /\ ex_pos = FALSE
    /\ ex_sl = FALSE

\* faulty variant: the market rules are not required
preconditions_fail_rules_unchecked(in) ==
    \/ in.quantity <= 0
    \/ in.sl_price <= 0
    \/ in.signal_price <= 0
    \/ ~in.pair_ok

\* lines 259-274: the checks that raise ValueError / TradeError
preconditions_fail(in) ==
    \/ in.quantity <= 0
    \/ in.sl_price <= 0
    \/ in.signal_price <= 0
    \/ ~in.pair_ok
    \/ ~in.rules_loaded

\* lines 259-274: synchronous precondition checks, no I/O
TEValidate ==
    /\ te_pc = "validate"
    /\ IF preconditions_fail(te_in)
       THEN /\ te_result' = "raised"
            /\ te_pc' = "done"
       ELSE /\ te_result' = te_result
            /\ te_pc' = "leverage"
    /\ UNCHANGED <<te_in, te_entry, te_prices, te_calls, te_events, te_fail,
                   ex_pos, ex_sl>>

\* line 296: await connector.set_leverage(pair, effective_leverage)
TESetLeverage ==
    /\ te_pc = "leverage"
    /\ \E outcome \in {"ok", "raise"} :
        /\ te_calls' = Append(te_calls,
               Call("set_leverage", NoneVal, NoneVal,
                    effective_leverage(te_in.leverage, MaxLeverage), outcome))
        /\ te_pc' = IF outcome = "ok" THEN "entry" ELSE "on_failure"
    /\ UNCHANGED <<te_in, te_entry, te_prices, te_events, te_result, te_fail,
                   ex_pos, ex_sl>>

\* lines 300-318: market entry order; a FAILED status raises OrderFailedError
\* with entry_order bound, an exception of place_order leaves it None
TEPlaceEntry ==
    /\ te_pc = "entry"
    /\ \E outcome \in OrderStatus \cup {"raise"}, fill \in FillPrices \cup {NoPrice} :
        /\ te_calls' = Append(te_calls,
               Call("place_order", entry_side(te_in.direction), "MARKET", NoPrice, outcome))
        /\ IF outcome = "raise"
           THEN /\ te_entry' = NoOrder
                /\ te_pc' = "on_failure"
                /\ ex_pos' = ex_pos
           ELSE /\ te_entry' = [status |-> outcome,
                                price |-> IF fill = NoPrice THEN te_in.signal_price ELSE fill]
                /\ te_pc' = IF outcome = "FAILED" THEN "on_failure" ELSE "recalc"
                /\ ex_pos' = (ex_pos \/ Effective(outcome))
    /\ UNCHANGED <<te_in, te_prices, te_events, te_result, te_fail, ex_sl>>

\* lines 326-332: recompute TP/SL on the real entry price, round to the tick
TERecalc ==
    /\ te_pc = "recalc"
    /\ LET raw == calculate_tp_sl(te_in.direction, te_entry.price,
                                  te_in.signal_price, te_in.sl_price, te_in.rr) IN
       IF raw = CalcError
       THEN /\ te_prices' = te_prices
            /\ te_fail' = "calc"
            /\ te_pc' = "on_failure"
       ELSE /\ te_prices' = [entry |-> te_entry.price,
                             tp |-> round_price(raw.tp),
                             sl |-> round_price(raw.sl)]
            /\ te_fail' = te_fail
            /\ te_pc' = "sl"
    /\ UNCHANGED <<te_in, te_entry, te_calls, te_events, te_result, ex_pos, ex_sl>>

\* lines 343-356: stop-loss order and the check of its returned status
TEPlaceSL ==
    /\ te_pc = "sl"
    /\ \E outcome \in OrderStatus \cup {"raise"} :
        /\ te_calls' = Append(te_calls,
               Call("place_order", close_side(te_in.direction), "STOP_LOSS",
                    te_prices.sl, outcome))
        /\ IF outcome = "raise"
           THEN /\ te_fail' = "sl_raise"
                /\ te_pc' = "on_failure"
                /\ ex_sl' = ex_sl
           ELSE /\ ex_sl' = (ex_sl \/ Effective(outcome))
                /\ IF verify_sl_status(outcome)
                   THEN /\ te_fail' = te_fail
                        /\ te_pc' = "tp"
                   ELSE /\ te_fail' = "sl_status"
                        /\ te_pc' = "on_failure"
    /\ UNCHANGED <<te_in, te_entry, te_prices, te_events, te_result, ex_pos>>

\* faulty variant: an exception of the take-profit order reaches the outer
\* except clause
after_take_profit_unguarded(outcome) == IF outcome = "raise" THEN "on_failure" ELSE "opened"

\* lines 359-372: the inner try/except logs the exception, and the status of
\* the returned order is not looked at
after_take_profit(outcome) == "opened"

\* lines 359-372: take-profit order, best effort (its exception is only logged)
TEPlaceTP ==
    /\ te_pc = "tp"
    /\ \E outcome \in OrderStatus \cup {"raise"} :
        /\ te_calls' = Append(te_calls,
               Call("place_order", close_side(te_in.direction), "TAKE_PROFIT",
                    te_prices.tp, outcome))
        /\ te_fail' = IF outcome = "raise" THEN "tp_raise" ELSE te_fail
        /\ te_pc' = after_take_profit(outcome)
    /\ UNCHANGED <<te_in, te_entry, te_prices, te_events, te_result, ex_pos, ex_sl>>

\* lines 375-405: build the TradeRecord, emit trade.opened, return the record
TEOpened ==
    /\ te_pc = "opened"
    /\ te_events' = Append(te_events, "trade.opened")
    /\ te_result' = "record"
    /\ te_pc' = "done"
    /\ UNCHANGED <<te_in, te_entry, te_prices, te_calls, te_fail, ex_pos, ex_sl>>

\* lines 409-423 and 459-483: the except branch calls _close_position_on_failure,
\* which flattens the position when the entry was executed; an exception of
\* the closing order is escalated as error.critical
TEClosePosition ==
    /\ te_pc = "on_failure"
    /\ IF entry_executed(te_entry)
       THEN \E outcome \in OrderStatus \cup {"raise"} :
              /\ te_calls' = Append(te_calls,
                     Call("place_order", close_side(te_in.direction), "MARKET",
                          NoPrice, outcome))
              /\ te_events' = IF outcome = "raise"
                              THEN Append(te_events, "error.critical")
                              ELSE te_events
              /\ ex_pos' = (ex_pos /\ ~(outcome /= "raise" /\ Effective(outcome)))
       ELSE /\ te_calls' = te_calls
            /\ te_events' = te_events
            /\ ex_pos' = ex_pos
    /\ te_pc' = "emit_failed"
    /\ UNCHANGED <<te_in, te_entry, te_prices, te_result, te_fail, ex_sl>>

\* lines 486-494 and 424: trade.failed is emitted in every failure path, then
\* execute_atomic_trade returns None
TETradeFailed ==
    /\ te_pc = "emit_failed"
    /\ te_events' = Append(te_events, "trade.failed")
    /\ te_result' = "None"
    /\ te_pc' = "done"
    /\ UNCHANGED <<te_in, te_entry, te_prices, te_calls, te_fail, ex_pos, ex_sl>>

\* the awaits of execute_atomic_trade and of _close_position_on_failure
TEAwaits == {"leverage", "entry", "sl", "tp", "opened", "on_failure", "emit_failed"}

\* the task is cancelled while the coroutine is suspended: "except
\* asyncio.CancelledError: raise" (lines 407-408), and a CancelledError inside
\* _close_position_on_failure is no Exception either.  The request in flight
\* may or may not have taken effect on the exchange.
TECancel ==
    /\ te_pc \in TEAwaits
    /\ te_result' = "cancelled"
    /\ te_pc' = "done"
    /\ \E effect \in BOOLEAN :
        /\ ex_pos' = CASE te_pc = "entry" -> (ex_pos \/ effect)
                       [] te_pc = "on_failure" /\ entry_executed(te_entry) ->
                              (ex_pos /\ ~effect)
                       [] OTHER -> ex_pos
        /\ ex_sl' = IF te_pc = "sl" THEN (ex_sl \/ effect) ELSE ex_sl
    /\ UNCHANGED <<te_in, te_entry, te_prices, te_calls, te_events, te_fail>>

(***************************************************************************)
(* TradingApp.run_crash_recovery (src/src/core/app.py, lines 117-215)      *)
(***************************************************************************)
MaxTrades == 2

MaxPositions == 2

MaxOrders == 1

TradeIds == 1..MaxTrades

\* sequences without repetition: _on_trade_event appends an id only when it
\* is not yet listed
InjectiveSeqs(S, n) ==
    {q \in UNION {[1..k -> S] : k \in 0..n} :
        \A i, j \in 1..Len(q) : i /= j => q[i] /= q[j]}

SeqsUpTo(S, n) == UNION {[1..k -> S] : k \in 0..n}

\* a position dict: "side" and "contracts"
Positions == [side : {"long", "short"}, contracts : {0, 1}]

\* an open-order dict: "type", "side", and whether "stopPrice" /
\* "triggerPrice" are present (not None)
OpenOrders == [type : {"STOP_MARKET", "take_profit", "limit"},
               side : {"buy", "sell"},
               stopPrice : BOOLEAN,
               triggerPrice : BOOLEAN]

\* str.lower() on the order types of the model
Lower(t) ==
    CASE t = "STOP_MARKET" -> "stop_market"
      [] t = "LONG" -> "long"
      [] t = "Short" -> "short"
      [] OTHER -> t

protection_types == {"stop_market", "stop", "stop_loss", "take_profit_market", "take_profit"}

\* lines 149-154: membership test of the protection_orders comprehension
is_protection_order(o) ==
    \/ Lower(o.type) \in protection_types
    \/ o.stopPrice
    \/ o.triggerPrice

\* line 155
has_protection(orders) ==
    \E i \in 1..Len(orders) : is_protection_order(orders[i])

\* faulty variant: the first position, whatever its size
first_position(positions) == IF Len(positions) > 0 THEN 1 ELSE 0

\* lines 159-162: next(p for p in positions if contracts > 0, None), as an
\* index into positions (0 for None)
first_open_position(positions) ==
    IF \E i \in 1..Len(positions) : positions[i].contracts > 0
    THEN CHOOSE i \in 1..Len(positions) :
            /\ positions[i].contracts > 0
            /\ \A j \in 1..(i - 1) : positions[j].contracts <= 0
    ELSE 0

\* faulty variant: the position stays visible to the following trade ids
open_position_kept(idx) == idx

\* line 194: open_position = None once the position has been closed
open_position_after_close(idx) == 0

\* line 190
recovery_close_side(side) == IF side = "long" THEN "SELL" ELSE "BUY"

\* list.remove(x): removes the first occurrence
Remove(q, x) ==
    IF \E i \in 1..Len(q) : q[i] = x
    THEN LET k == CHOOSE i \in 1..Len(q) : q[i] = x /\ \A j \in 1..(i - 1) : q[j] /= x
         IN SubSeq(q, 1, k - 1) \o SubSeq(q, k + 1, Len(q))
    ELSE q

StateFile(kind, trades) == [kind |-> kind, active_trades |-> trades]

\* state of the process at the call of run_crash_recovery: any state file,
\* any positions and open orders on the exchange
RCInit ==
    /\ \E kind \in {"missing", "corrupt", "ok"} :
         \E trades \in InjectiveSeqs(TradeIds, MaxTrades) :
            /\ (kind /= "ok" => trades = <<>>)
            /\ rc_file = StateFile(kind, trades)
    /\ rx_positions \in SeqsUpTo(Positions, MaxPositions)
    /\ rx_orders \in SeqsUpTo(OpenOrders, MaxOrders)
    /\ rc_state = <<>>
    /\ rc_pc = "load"
    /\ rc_positions = <<>>
    /\ rc_orders = <<>>
    /\ rc_open = 0
    /\ rc_ids = <<>>
    /\ rc_i = 1
    /\ rc_saved = StateFile("none", <<>>)
    /\ rc_calls = <<>>
    /\ rc_events = <<>>
    /\ rc_result = "pending"
    /\ rc_via = "none"

RCIdle ==
    /\ rc_file = StateFile("missing", <<>>)
    /\ rx_positions = <<>>
    /\ rx_orders = <<>>
    /\ rc_state = <<>>
    /\ rc_pc = "done"
    /\ rc_positions = <<>>
    /\ rc_orders = <<>>
    /\ rc_open = 0
    /\ rc_ids = <<>>
    /\ rc_i = 1
    /\ rc_saved = StateFile("none", <<>>)
    /\ rc_calls = <<>>
    /\ rc_events = <<>>
    /\ rc_result = "pending"
    /\ rc_via = "none"

\* StateManager.load (state_manager.py 37-62): None for a missing or corrupt
\* file, OSError propagated
state_manager_load(file) ==
    IF file.kind = "ok" THEN file ELSE StateFile("none", <<>>)

\* lines 128-132
RCLoad ==
    /\ rc_pc = "load"
    /\ \E io \in {"ok", "oserror"} :
        IF io = "oserror" /\ rc_file.kind /= "missing"
        THEN /\ rc_result' = "raised"
             /\ rc_pc' = "done"
             /\ rc_state' = rc_state
        ELSE LET state == state_manager_load(rc_file) IN
             IF state.kind = "none" \/ Len(state.active_trades) = 0
             THEN /\ rc_result' = "None"
                  /\ rc_pc' = "done"
                  /\ rc_state' = rc_state
             ELSE /\ rc_result' = rc_result
                  /\ rc_pc' = "fetch_positions"
                  /\ rc_state' = state.active_trades
    /\ UNCHANGED <<rc_file, rc_saved, rc_positions, rc_orders, rc_open, rc_ids, rc_i,
                   rc_calls, rc_events, rc_via, rx_positions, rx_orders>>

\* faulty variant: the TimeoutError leaves run_crash_recovery
RCTimeoutRaises ==
    /\ rc_result' = "raised"
    /\ rc_via' = "timeout"
    /\ rc_pc' = "done"

\* lines 211-215: asyncio.timeout(55) expired at the current await
RCTimeout ==
    /\ rc_result' = "state"
    /\ rc_via' = "timeout"
    /\ rc_pc' = "done"

\* an exception other than the timeout leaves run_crash_recovery
RCRaise ==
    /\ rc_result' = "raised"
    /\ rc_via' = rc_via
    /\ rc_pc' = "done"

\* line 142
RCFetchPositions ==
    /\ rc_pc = "fetch_positions"
    /\ \E outcome \in {"ok", "raise", "timeout"} :
        /\ rc_calls' = Append(rc_calls, Call("fetch_positions", NoneVal, NoneVal, NoPrice, outcome))
        /\ CASE outcome = "ok" ->
                  /\ rc_positions' = rx_positions
                  /\ rc_pc' = "fetch_orders"
                  /\ UNCHANGED <<rc_result, rc_via>>
             [] outcome = "raise" -> RCRaise /\ rc_positions' = rc_positions
             [] outcome = "timeout" -> RCTimeout /\ rc_positions' = rc_positions
    /\ UNCHANGED <<rc_file, rc_saved, rc_state, rc_orders, rc_open, rc_ids, rc_i,
                   rc_events, rx_positions, rx_orders>>

\* lines 143-165: fetch the open orders, then (synchronously) look for the
\* open position and copy the id list for the loop
RCFetchOrders ==
    /\ rc_pc = "fetch_orders"
    /\ \E outcome \in {"ok", "raise", "timeout"} :
        /\ rc_calls' = Append(rc_calls, Call("fetch_open_orders", NoneVal, NoneVal, NoPrice, outcome))
        /\ CASE outcome = "ok" ->
                  /\ rc_orders' = rx_orders
                  /\ rc_open' = first_open_position(rc_positions)
                  /\ rc_ids' = rc_state
                  /\ rc_pc' = "loop"
                  /\ UNCHANGED <<rc_result, rc_via>>
             [] outcome = "raise" -> RCRaise /\ UNCHANGED <<rc_orders, rc_open, rc_ids>>
             [] outcome = "timeout" -> RCTimeout /\ UNCHANGED <<rc_orders, rc_open, rc_ids>>
    /\ UNCHANGED <<rc_file, rc_saved, rc_state, rc_positions, rc_i, rc_events,
                   rx_positions, rx_orders>>

\* lines 165-186: one iteration of the loop up to its first await
RCLoopStep ==
    /\ rc_pc = "loop"
    /\ rc_i <= Len(rc_ids)
    /\ LET trade_id == rc_ids[rc_i] IN
       IF rc_open = 0
       THEN /\ rc_state' = Remove(rc_state, trade_id)
            /\ rc_i' = rc_i + 1
            /\ rc_pc' = "loop"
       ELSE IF has_protection(rc_orders)
            THEN /\ rc_state' = rc_state
                 /\ rc_i' = rc_i + 1
                 /\ rc_pc' = "loop"
            ELSE /\ rc_state' = rc_state
                 /\ rc_i' = rc_i
                 /\ rc_pc' = "close"
    /\ UNCHANGED <<rc_file, rc_saved, rc_positions, rc_orders, rc_open, rc_ids, rc_calls,
                   rc_events, rc_result, rc_via, rx_positions, rx_orders>>

\* exchange side of a MARKET close of position idx
Flatten(positions, idx) ==
    [i \in 1..Len(positions) |->
        IF i = idx THEN [positions[i] EXCEPT !.contracts = 0] ELSE positions[i]]

\* lines 187-194: MARKET order closing the unprotected position; its returned
\* status is not looked at
RCPlaceClose ==
    /\ rc_pc = "close"
    /\ \E outcome \in OrderStatus \cup {"raise", "timeout"} :
       \E placed \in (IF outcome = "timeout" THEN BOOLEAN ELSE {Effective(outcome)}) :
        /\ rc_calls' = Append(rc_calls,
              Call("place_order", recovery_close_side(rc_positions[rc_open].side),
                   "MARKET", NoPrice, outcome))
        /\ rx_positions' = IF placed THEN Flatten(rx_positions, rc_open) ELSE rx_positions
        /\ CASE outcome = "raise" -> RCRaise /\ UNCHANGED <<rc_state, rc_open>>
             [] outcome = "timeout" -> RCTimeout /\ UNCHANGED <<rc_state, rc_open>>
             [] OTHER ->
                  /\ rc_state' = Remove(rc_state, rc_ids[rc_i])
                  /\ rc_open' = open_position_after_close(rc_open)
                  /\ rc_pc' = "emit"
                  /\ UNCHANGED <<rc_result, rc_via>>
    /\ UNCHANGED <<rc_file, rc_saved, rc_positions, rc_orders, rc_ids, rc_i, rc_events,
                   rx_orders>>

\* lines 196-204: error.critical on the bus (set by start() before run_live
\* calls the recovery); the timeout may expire while a handler is suspended
RCEmitCritical ==
    /\ rc_pc = "emit"
    /\ rc_events' = Append(rc_events, "error.critical")
    /\ \E outcome \in {"ok", "timeout"} :
        IF outcome = "ok"
        THEN /\ rc_i' = rc_i + 1
             /\ rc_pc' = "loop"
             /\ UNCHANGED <<rc_result, rc_via>>
        ELSE RCTimeout /\ rc_i' = rc_i
    /\ UNCHANGED <<rc_file, rc_saved, rc_state, rc_positions, rc_orders, rc_open, rc_ids,
                   rc_calls, rx_positions, rx_orders>>

\* lines 206-209: persist the corrected state and return it
RCSaveAndReturn ==
    /\ rc_pc = "loop"
    /\ rc_i > Len(rc_ids)
    /\ \E io \in {"ok", "oserror"} :
        IF io = "ok"
        THEN /\ rc_saved' = StateFile("ok", rc_state)
             /\ rc_result' = "state"
             /\ rc_via' = "normal"
        ELSE /\ rc_saved' = rc_saved
             /\ rc_result' = "raised"
             /\ rc_via' = rc_via
    /\ rc_pc' = "done"
    /\ UNCHANGED <<rc_file, rc_state, rc_positions, rc_orders, rc_open, rc_ids, rc_i,
                   rc_calls, rc_events, rx_positions, rx_orders>>

RCNext ==
    \/ (RCLoad /\ UNCHANGED <<te_vars, eb_vars, sm_vars, rl_vars, cx_vars, tc_vars, ap_vars, st_vars, lk_vars, re_vars, bt_vars, sy_vars>>)
    \/ (RCFetchPositions /\ UNCHANGED <<te_vars, eb_vars, sm_vars, rl_vars, cx_vars, tc_vars, ap_vars, st_vars, lk_vars, re_vars, bt_vars, sy_vars>>)
    \/ (RCFetchOrders /\ UNCHANGED <<te_vars, eb_vars, sm_vars, rl_vars, cx_vars, tc_vars, ap_vars, st_vars, lk_vars, re_vars, bt_vars, sy_vars>>)
    \/ (RCLoopStep /\ UNCHANGED <<te_vars, eb_vars, sm_vars, rl_vars, cx_vars, tc_vars, ap_vars, st_vars, lk_vars, re_vars, bt_vars, sy_vars>>)
    \/ (RCPlaceClose /\ UNCHANGED <<te_vars, eb_vars, sm_vars, rl_vars, cx_vars, tc_vars, ap_vars, st_vars, lk_vars, re_vars, bt_vars, sy_vars>>)
    \/ (RCEmitCritical /\ UNCHANGED <<te_vars, eb_vars, sm_vars, rl_vars, cx_vars, tc_vars, ap_vars, st_vars, lk_vars, re_vars, bt_vars, sy_vars>>)
    \/ (RCSaveAndReturn /\ UNCHANGED <<te_vars, eb_vars, sm_vars, rl_vars, cx_vars, tc_vars, ap_vars, st_vars, lk_vars, re_vars, bt_vars, sy_vars>>)

TENext ==
    \/ (TEValidate /\ UNCHANGED <<rc_vars, eb_vars, sm_vars, rl_vars, cx_vars, tc_vars, ap_vars, st_vars, lk_vars, re_vars, bt_vars, sy_vars>>)
    \/ (TESetLeverage /\ UNCHANGED <<rc_vars, eb_vars, sm_vars, rl_vars, cx_vars, tc_vars, ap_vars, st_vars, lk_vars, re_vars, bt_vars, sy_vars>>)
    \/ (TEPlaceEntry /\ UNCHANGED <<rc_vars, eb_vars, sm_vars, rl_vars, cx_vars, tc_vars, ap_vars, st_vars, lk_vars, re_vars, bt_vars, sy_vars>>)
    \/ (TERecalc /\ UNCHANGED <<rc_vars, eb_vars, sm_vars, rl_vars, cx_vars, tc_vars, ap_vars, st_vars, lk_vars, re_vars, bt_vars, sy_vars>>)
    \/ (TEPlaceSL /\ UNCHANGED <<rc_vars, eb_vars, sm_vars, rl_vars, cx_vars, tc_vars, ap_vars, st_vars, lk_vars, re_vars, bt_vars, sy_vars>>)
    \/ (TEPlaceTP /\ UNCHANGED <<rc_vars, eb_vars, sm_vars, rl_vars, cx_vars, tc_vars, ap_vars, st_vars, lk_vars, re_vars, bt_vars, sy_vars>>)
    \/ (TEOpened /\ UNCHANGED <<rc_vars, eb_vars, sm_vars, rl_vars, cx_vars, tc_vars, ap_vars, st_vars, lk_vars, re_vars, bt_vars, sy_vars>>)
    \/ (TEClosePosition /\ UNCHANGED <<rc_vars, eb_vars, sm_vars, rl_vars, cx_vars, tc_vars, ap_vars, st_vars, lk_vars, re_vars, bt_vars, sy_vars>>)
    \/ (TETradeFailed /\ UNCHANGED <<rc_vars, eb_vars, sm_vars, rl_vars, cx_vars, tc_vars, ap_vars, st_vars, lk_vars, re_vars, bt_vars, sy_vars>>)

TECancelNext ==
    \/ TENext
    \/ (TECancel /\ UNCHANGED <<rc_vars, eb_vars, sm_vars, rl_vars, cx_vars, tc_vars, ap_vars, st_vars, lk_vars, re_vars, bt_vars, sy_vars>>)

(***************************************************************************)
(* StateMachine (src/src/core/state_machine.py)                            *)
(***************************************************************************)
MaxConditions == 2

MaxCandle == 2

MaxCalls == 5

StrategyStateEnum == {"IDLE", "WATCHING", "SIGNAL_READY", "IN_TRADE"}

ConditionIndexes == 0..(MaxConditions - 1)

NoCandle == -1

CandleIndexes == 1..MaxCandle

\* arguments a caller may pass as direction
Directions == {"long", "short", "LONG", "Short", "invalid"}

SMTradeIds == {"t1", "t2"}

\* the four fields a transition may change
SMFields == [state |-> sm_state, conditions_met |-> sm_conditions_met,
             last_condition_candle |-> sm_last_condition_candle,
             current_trade_id |-> sm_current_trade_id]

\* a call that returned normally, with the arguments that matter afterwards
Accepted(op, index, direction, trade_id) ==
    [op |-> op, index |-> index, direction |-> direction, trade_id |-> trade_id]

SMCall(op, direction, raised) ==
    [op |-> op, direction |-> direction, raised |-> raised, before |-> SMFields]

\* __init__, lines 22-25
SMInit ==
    /\ sm_state = "IDLE"
    /\ sm_conditions_met = <<>>
    /\ sm_last_condition_candle = NoCandle
    /\ sm_current_trade_id = NoneVal
    /\ sm_emitted = <<>>
    /\ sm_last = [op |-> "none", direction |-> NoneVal, raised |-> FALSE,
                  before |-> [state |-> "IDLE", conditions_met |-> <<>>,
                              last_condition_candle |-> NoCandle,
                              current_trade_id |-> NoneVal]]
    /\ sm_trace = <<>>

SMIdle == SMInit

\* faulty variant: every state is accepted
validate_transition_any_state(state, allowed_states) == TRUE

\* _validate_transition, line 47: the call goes on iff the state is allowed
validate_transition(state, allowed_states) == state \in allowed_states

\* the call raises TradingAppError before touching anything
SMRaise(op, direction) ==
    /\ sm_last' = SMCall(op, direction, TRUE)
    /\ sm_emitted' = <<>>
    /\ UNCHANGED <<sm_state, sm_conditions_met, sm_last_condition_candle, sm_current_trade_id,
                   sm_trace>>

\* faulty variant: no index counts as recorded
already_recorded_never(conditions_met, condition_index) == FALSE

\* "condition_index in self._conditions_met"
already_recorded(conditions_met, condition_index) ==
    \E k \in 1..Len(conditions_met) : conditions_met[k] = condition_index

\* on_condition_met(condition_index, candle_index)
SMOnConditionMet ==
    \E ci \in ConditionIndexes, candle \in CandleIndexes \cup {NoCandle} :
        /\ Len(sm_trace) < MaxCalls
        /\ IF ~validate_transition(sm_state, {"IDLE", "WATCHING"})
           THEN SMRaise("on_condition_met", NoneVal)
           ELSE IF already_recorded(sm_conditions_met, ci)
           THEN /\ sm_last' = SMCall("on_condition_met", NoneVal, FALSE)
                /\ sm_emitted' = <<>>
                /\ sm_trace' = Append(sm_trace, Accepted("on_condition_met", ci, NoneVal, NoneVal))
                /\ UNCHANGED <<sm_state, sm_conditions_met, sm_last_condition_candle,
                               sm_current_trade_id>>
           ELSE /\ sm_state' = "WATCHING"
                /\ sm_conditions_met' = Append(sm_conditions_met, ci)
                /\ sm_last_condition_candle' =
                       IF candle /= NoCandle THEN candle ELSE sm_last_condition_candle
                /\ sm_emitted' = <<"strategy.condition_met">>
                /\ sm_last' = SMCall("on_condition_met", NoneVal, FALSE)
                /\ sm_trace' = Append(sm_trace, Accepted("on_condition_met", ci, NoneVal, NoneVal))
                /\ UNCHANGED sm_current_trade_id

\* on_all_conditions_met(direction)
SMOnAllConditionsMet ==
    \E direction \in Directions :
        /\ Len(sm_trace) < MaxCalls
        /\ IF ~validate_transition(sm_state, {"WATCHING"})
           THEN SMRaise("on_all_conditions_met", direction)
           ELSE IF Lower(direction) \notin {"long", "short"}
           THEN SMRaise("on_all_conditions_met", direction)
           ELSE /\ sm_state' = "SIGNAL_READY"
                /\ sm_emitted' = IF Lower(direction) = "long"
                                 THEN <<"strategy.signal_long">>
                                 ELSE <<"strategy.signal_short">>
                /\ sm_last' = SMCall("on_all_conditions_met", direction, FALSE)
                /\ sm_trace' = Append(sm_trace,
                                      Accepted("on_all_conditions_met", -1, direction, NoneVal))
                /\ UNCHANGED <<sm_conditions_met, sm_last_condition_candle, sm_current_trade_id>>

\* on_trade_opened(trade_id)
SMOnTradeOpened ==
    \E trade_id \in SMTradeIds :
        /\ Len(sm_trace) < MaxCalls
        /\ IF ~validate_transition(sm_state, {"SIGNAL_READY"})
           THEN SMRaise("on_trade_opened", NoneVal)
           ELSE /\ sm_state' = "IN_TRADE"
                /\ sm_current_trade_id' = trade_id
                /\ sm_emitted' = <<>>
                /\ sm_last' = SMCall("on_trade_opened", NoneVal, FALSE)
                /\ sm_trace' = Append(sm_trace, Accepted("on_trade_opened", -1, NoneVal, trade_id))
                /\ UNCHANGED <<sm_conditions_met, sm_last_condition_candle>>

\* faulty variant: the list of conditions survives the reset
SMResetKeepsConditions ==
    /\ sm_conditions_met' = sm_conditions_met
    /\ sm_last_condition_candle' = NoCandle
    /\ sm_current_trade_id' = NoneVal

\* _reset_conditions, lines 57-59
SMResetConditions ==
    /\ sm_conditions_met' = <<>>
    /\ sm_last_condition_candle' = NoCandle
    /\ sm_current_trade_id' = NoneVal

\* on_trade_closed()
SMOnTradeClosed ==
    /\ Len(sm_trace) < MaxCalls
    /\ IF ~validate_transition(sm_state, {"IN_TRADE"})
       THEN SMRaise("on_trade_closed", NoneVal)
       ELSE /\ sm_state' = "IDLE"
            /\ SMResetConditions
            /\ sm_emitted' = <<>>
            /\ sm_last' = SMCall("on_trade_closed", NoneVal, FALSE)
            /\ sm_trace' = Append(sm_trace, Accepted("on_trade_closed", -1, NoneVal, NoneVal))

\* on_timeout()
SMOnTimeout ==
    /\ Len(sm_trace) < MaxCalls
    /\ IF ~validate_transition(sm_state, {"WATCHING"})
       THEN SMRaise("on_timeout", NoneVal)
       ELSE /\ sm_state' = "IDLE"
            /\ SMResetConditions
            /\ sm_emitted' = <<"strategy.timeout">>
            /\ sm_last' = SMCall("on_timeout", NoneVal, FALSE)
            /\ sm_trace' = Append(sm_trace, Accepted("on_timeout", -1, NoneVal, NoneVal))

SMNext ==
    \/ (SMOnConditionMet /\ UNCHANGED <<te_vars, rc_vars, eb_vars, rl_vars, cx_vars, tc_vars, ap_vars, st_vars, lk_vars, re_vars, bt_vars, sy_vars>>)
    \/ (SMOnAllConditionsMet /\ UNCHANGED <<te_vars, rc_vars, eb_vars, rl_vars, cx_vars, tc_vars, ap_vars, st_vars, lk_vars, re_vars, bt_vars, sy_vars>>)
    \/ (SMOnTradeOpened /\ UNCHANGED <<te_vars, rc_vars, eb_vars, rl_vars, cx_vars, tc_vars, ap_vars, st_vars, lk_vars, re_vars, bt_vars, sy_vars>>)
    \/ (SMOnTradeClosed /\ UNCHANGED <<te_vars, rc_vars, eb_vars, rl_vars, cx_vars, tc_vars, ap_vars, st_vars, lk_vars, re_vars, bt_vars, sy_vars>>)
    \/ (SMOnTimeout /\ UNCHANGED <<te_vars, rc_vars, eb_vars, rl_vars, cx_vars, tc_vars, ap_vars, st_vars, lk_vars, re_vars, bt_vars, sy_vars>>)

(***************************************************************************)
(* RateLimiter (src/src/exchange/rate_limiter.py)                          *)
(* Time advances in ticks of 1/TicksPerSecond second.  No critical section *)
(* of the limiter contains an await, so each one is a single step.         *)
(***************************************************************************)
MaxTasks == 2

MaxTime == 4

MaxAdmitted == 4

MaxCancels == 1

TicksPerSecond == 2

\* one token, in the unit of rl_tokens
TokenUnit == TicksPerSecond

CRITICAL == 0

HIGH == 1

NORMAL == 2

OrderPriority == {CRITICAL, HIGH, NORMAL}

\* the configurations explored: [burst_size, max_requests_per_second, max_retries]
RateLimitConfig ==
    {[burst_size |-> 1, rate |-> 1, max_retries |-> 1],
     [burst_size |-> 2, rate |-> 2, max_retries |-> 2]}

\* retry_delay and max_retry_delay, in ticks
RetryDelay == 1

MaxRetryDelay == 2

NoDelay == -1

\* Retry-After hint of the exchange, in ticks
RetryAfterHint == 2

\* beyond this count neither the delay (lines 102-103, MaxRetryDelay reached)
\* nor the test of line 122 changes
RetryCountCap == 2

RLTaskIds == 1..MaxTasks

Max(a, b) == IF a >= b THEN a ELSE b

RECURSIVE Pow2(_)
Pow2(n) == IF n = 0 THEN 1 ELSE 2 * Pow2(n - 1)

RLTask(status, prio, done, retry_count, remaining) ==
    [status |-> status, prio |-> prio, done |-> done, retry_count |-> retry_count,
     remaining |-> remaining]

Waiter(prio, task) == [prio |-> prio, task |-> task]

\* a caller that is not inside acquire
IdleTask == RLTask("idle", NORMAL, FALSE, 0, 0)

\* outcome of a step for the caller that took it: "sleeps", "returned" or "failed"
NoStep == [op |-> "none", task |-> 0, prio |-> NORMAL, outcome |-> "none", retry_count |-> 0,
           fast |-> FALSE, queue |-> <<>>, grants |-> <<>>, tokens_before |-> 0]

\* __init__, lines 39-49
RLInit ==
    /\ rl_cfg \in RateLimitConfig
    /\ rl_tokens = rl_cfg.burst_size * TokenUnit
    /\ rl_elapsed = 0
    /\ rl_initialized = FALSE
    /\ rl_waiters = <<>>
    /\ rl_retry_after = NoDelay
    /\ rl_tasks = [t \in RLTaskIds |-> IdleTask]
    /\ rl_now = 0
    /\ rl_admitted = 0
    /\ rl_ncancels = 0
    /\ rl_last = NoStep

RLIdle ==
    /\ rl_cfg = [burst_size |-> 1, rate |-> 1, max_retries |-> 1]
    /\ rl_tokens = TokenUnit
    /\ rl_elapsed = 0
    /\ rl_initialized = FALSE
    /\ rl_waiters = <<>>
    /\ rl_retry_after = NoDelay
    /\ rl_tasks = [t \in RLTaskIds |-> IdleTask]
    /\ rl_now = 0
    /\ rl_admitted = 0
    /\ rl_ncancels = 0
    /\ rl_last = NoStep

\* faulty variant: the bucket fills twice as fast
refilled_twice(tokens, elapsed) == tokens + 2 * elapsed * rl_cfg.rate

\* line 61: self._tokens + elapsed * self._refill_rate
refilled(tokens, elapsed) == tokens + elapsed * rl_cfg.rate

\* faulty variant: the bucket is not capped
refill_uncapped(tokens, elapsed, initialized) ==
    IF ~initialized THEN tokens ELSE refilled(tokens, elapsed)

\* _refill, lines 51-61: the token count after the refill
refill(tokens, elapsed, initialized) ==
    IF ~initialized THEN tokens
    ELSE Min(rl_cfg.burst_size * TokenUnit, refilled(tokens, elapsed))

\* faulty variant: arrival order only, the priority is ignored
heap_min_fifo(waiters) == 1

\* heapq order of (priority, seq, future): index of the entry popped first
heap_min(waiters) ==
    CHOOSE k \in 1..Len(waiters) :
        \A j \in 1..Len(waiters) :
            \/ waiters[k].prio < waiters[j].prio
            \/ (waiters[k].prio = waiters[j].prio /\ k <= j)

RemoveAt(q, k) == [j \in 1..(Len(q) - 1) |-> IF j < k THEN q[j] ELSE q[j + 1]]

Grant(w, queue, tokens) ==
    [task |-> w.task, prio |-> w.prio, queue |-> queue, tokens_before |-> tokens,
     tokens_after |-> tokens - TokenUnit]

\* _dispatch_tokens, lines 63-69; d = [tokens, waiters, done, grants]
RECURSIVE dispatch_tokens(_)
dispatch_tokens(d) ==
    IF d.tokens >= TokenUnit /\ d.waiters /= <<>>
    THEN LET k == heap_min(d.waiters)
             w == d.waiters[k]
             rest == RemoveAt(d.waiters, k)
         IN IF w.task \in d.done
            THEN dispatch_tokens([d EXCEPT !.waiters = rest])
            ELSE dispatch_tokens([tokens |-> d.tokens - TokenUnit,
                                  waiters |-> rest,
                                  done |-> d.done \cup {w.task},
                                  grants |-> Append(d.grants, Grant(w, d.waiters, d.tokens))])
    ELSE d

\* tasks whose future is done
DoneTasks == {t \in RLTaskIds : rl_tasks[t].done}

\* faulty variant: a token is taken at once even when callers are queued
fast_path_ignores_waiters(tokens, waiters) == tokens >= TokenUnit

\* line 76
fast_path(tokens, waiters) == tokens >= TokenUnit /\ waiters = <<>>

\* faulty variant: every priority gives up
may_abandon_any_priority(prio, retry_count) == retry_count >= rl_cfg.max_retries

\* line 122
may_abandon(prio, retry_count) == prio /= CRITICAL /\ retry_count >= rl_cfg.max_retries

\* lines 98-103: the next sleep
next_delay(retry_count) ==
    IF rl_retry_after /= NoDelay THEN rl_retry_after
    ELSE Min(RetryDelay * Pow2(Min(retry_count, 5)), MaxRetryDelay)

Admit(n) == Min(rl_admitted + n, MaxAdmitted)

\* the futures resolved by a dispatch: their owners see done = TRUE
MarkDone(tasks, d) == [t \in RLTaskIds |-> IF t \in d.done THEN [tasks[t] EXCEPT !.done = TRUE]
                                           ELSE tasks[t]]

\* acquire(priority) up to its first suspension, lines 71-110
RLAcquire ==
    \E t \in RLTaskIds, prio \in OrderPriority :
        /\ rl_tasks[t].status = "idle"
        /\ \A u \in 1..(t - 1) : rl_tasks[u].status /= "idle"
        /\ LET tokens == refill(rl_tokens, rl_elapsed, rl_initialized)
           IN IF fast_path(tokens, rl_waiters)
              THEN /\ rl_tokens' = tokens - TokenUnit
                   /\ rl_tasks' = rl_tasks
                   /\ rl_admitted' = Admit(1)
                   /\ rl_last' = [op |-> "acquire", task |-> t, prio |-> prio,
                                  outcome |-> "returned", retry_count |-> 0, fast |-> TRUE,
                                  queue |-> rl_waiters, grants |-> <<>>,
                                  tokens_before |-> tokens]
                   /\ UNCHANGED <<rl_waiters, rl_retry_after>>
              ELSE LET d == dispatch_tokens([tokens |-> tokens,
                                             waiters |-> Append(rl_waiters, Waiter(prio, t)),
                                             done |-> DoneTasks \ {t},
                                             grants |-> <<>>])
                       granted == t \in d.done
                   IN /\ rl_tokens' = d.tokens
                      /\ rl_waiters' = d.waiters
                      /\ rl_tasks' = [MarkDone(rl_tasks, d) EXCEPT ![t] =
                             IF granted THEN IdleTask
                             ELSE RLTask("sleeping", prio, FALSE, 0, next_delay(0))]
                      /\ rl_retry_after' = IF granted THEN rl_retry_after ELSE NoDelay
                      /\ rl_admitted' = Admit(Len(d.grants))
                      /\ rl_last' = [op |-> "acquire", task |-> t, prio |-> prio,
                                     outcome |-> IF granted THEN "returned" ELSE "sleeps",
                                     retry_count |-> 0, fast |-> FALSE,
                                     queue |-> Append(rl_waiters, Waiter(prio, t)),
                                     grants |-> d.grants, tokens_before |-> tokens]
        /\ rl_elapsed' = 0
        /\ rl_initialized' = TRUE
        /\ UNCHANGED <<rl_cfg, rl_now, rl_ncancels>>

\* acquire from the end of a sleep to the next suspension, lines 110-144
RLWakeTask(t) ==
    /\ rl_tasks[t].status = "sleeping"
    /\ rl_tasks[t].remaining = 0
    /\ IF rl_tasks[t].done
       THEN /\ rl_tasks' = [rl_tasks EXCEPT ![t] = IdleTask]
            /\ rl_last' = [NoStep EXCEPT !.op = "wake", !.task = t,
                                         !.prio = rl_tasks[t].prio,
                                         !.outcome = "returned",
                                         !.retry_count = rl_tasks[t].retry_count]
            /\ UNCHANGED <<rl_tokens, rl_elapsed, rl_initialized, rl_waiters,
                           rl_retry_after, rl_admitted>>
       ELSE LET tokens == refill(rl_tokens, rl_elapsed, rl_initialized)
                d == dispatch_tokens([tokens |-> tokens, waiters |-> rl_waiters,
                                      done |-> DoneTasks, grants |-> <<>>])
                granted == t \in d.done
                retry_count == Min(rl_tasks[t].retry_count + 1, RetryCountCap)
                abandon == ~granted /\ may_abandon(rl_tasks[t].prio, retry_count)
            IN /\ rl_tokens' = d.tokens
               /\ rl_elapsed' = 0
               /\ rl_initialized' = TRUE
               /\ rl_waiters' = IF abandon
                                THEN SelectSeq(d.waiters, LAMBDA w : w.task /= t)
                                ELSE d.waiters
               /\ rl_tasks' = [MarkDone(rl_tasks, d) EXCEPT ![t] =
                      IF granted \/ abandon THEN IdleTask
                      ELSE RLTask("sleeping", rl_tasks[t].prio, FALSE, retry_count,
                                  next_delay(retry_count))]
               /\ rl_retry_after' = IF granted \/ abandon THEN rl_retry_after ELSE NoDelay
               /\ rl_admitted' = Admit(Len(d.grants))
               /\ rl_last' = [op |-> "wake", task |-> t, prio |-> rl_tasks[t].prio,
                              outcome |-> IF granted THEN "returned"
                                          ELSE IF abandon THEN "failed" ELSE "sleeps",
                              retry_count |-> retry_count, fast |-> FALSE,
                              queue |-> rl_waiters, grants |-> d.grants,
                              tokens_before |-> tokens]
    /\ UNCHANGED <<rl_cfg, rl_now, rl_ncancels>>

RLWake == \E t \in RLTaskIds : RLWakeTask(t)

\* the task awaiting asyncio.sleep (line 110) is cancelled: CancelledError leaves
\* acquire, the entry of the task stays in _waiters
RLCancel ==
    \E t \in RLTaskIds :
        /\ rl_tasks[t].status = "sleeping"
        /\ rl_ncancels < MaxCancels
        /\ rl_tasks' = [rl_tasks EXCEPT ![t] = RLTask("cancelled", @.prio, @.done, 0, 0)]
        /\ rl_ncancels' = rl_ncancels + 1
        /\ rl_last' = NoStep
        /\ UNCHANGED <<rl_cfg, rl_tokens, rl_elapsed, rl_initialized, rl_waiters,
                       rl_retry_after, rl_now, rl_admitted>>

\* handle_rate_limit_error with a Retry-After header, lines 178-190
RLHandleRateLimitError ==
    /\ rl_retry_after = NoDelay
    /\ rl_retry_after' = RetryAfterHint
    /\ rl_last' = NoStep
    /\ UNCHANGED <<rl_cfg, rl_tokens, rl_elapsed, rl_initialized, rl_waiters, rl_tasks,
                   rl_now, rl_admitted, rl_ncancels>>

\* one tick of the loop clock: loop.time() grows, the sleeps get shorter; a
\* sleep that has elapsed resumes before the next tick.  The elapsed time is
\* no longer counted once it overfills the bucket by more than a token.
RLTick ==
    /\ \A t \in RLTaskIds : ~(rl_tasks[t].status = "sleeping" /\ rl_tasks[t].remaining = 0)
    /\ \/ rl_now < MaxTime
       \/ \E t \in RLTaskIds : rl_tasks[t].status = "sleeping" /\ rl_tasks[t].remaining > 0
       \/ rl_initialized /\ refilled(rl_tokens, rl_elapsed) <= (rl_cfg.burst_size + 1) * TokenUnit
    /\ rl_now' = IF rl_initialized THEN Min(rl_now + 1, MaxTime) ELSE rl_now
    /\ rl_elapsed' = IF rl_initialized
                        /\ refilled(rl_tokens, rl_elapsed) <= (rl_cfg.burst_size + 1) * TokenUnit
                     THEN rl_elapsed + 1 ELSE rl_elapsed
    /\ rl_tasks' = [t \in RLTaskIds |->
                      IF rl_tasks[t].status = "sleeping"
                      THEN [rl_tasks[t] EXCEPT !.remaining = Max(@ - 1, 0)]
                      ELSE rl_tasks[t]]
    /\ rl_last' = NoStep
    /\ UNCHANGED <<rl_cfg, rl_tokens, rl_initialized, rl_waiters, rl_retry_after,
                   rl_admitted, rl_ncancels>>

RLNext ==
    \/ (RLAcquire /\ UNCHANGED <<te_vars, rc_vars, eb_vars, sm_vars, cx_vars, tc_vars, ap_vars, st_vars, lk_vars, re_vars, bt_vars, sy_vars>>)
    \/ (RLWake /\ UNCHANGED <<te_vars, rc_vars, eb_vars, sm_vars, cx_vars, tc_vars, ap_vars, st_vars, lk_vars, re_vars, bt_vars, sy_vars>>)
    \/ (RLCancel /\ UNCHANGED <<te_vars, rc_vars, eb_vars, sm_vars, cx_vars, tc_vars, ap_vars, st_vars, lk_vars, re_vars, bt_vars, sy_vars>>)
    \/ (RLHandleRateLimitError /\ UNCHANGED <<te_vars, rc_vars, eb_vars, sm_vars, cx_vars, tc_vars, ap_vars, st_vars, lk_vars, re_vars, bt_vars, sy_vars>>)
    \/ (RLTick /\ UNCHANGED <<te_vars, rc_vars, eb_vars, sm_vars, cx_vars, tc_vars, ap_vars, st_vars, lk_vars, re_vars, bt_vars, sy_vars>>)

(***************************************************************************)
(* CcxtConnector: the streaming loop of watch_candles, _reconnect and the  *)
(* audit _verify_positions_after_reconnect                                 *)
(* (src/src/exchange/ccxt_connector.py).  Only the failures of watch_ohlcv *)
(* are steps: a batch of candles leaves the connection state as it is.     *)
(* fetch_open_orders(self._pair) returns orders of the pair the positions  *)
(* were fetched for, so the symbols of orders and positions agree.         *)
(***************************************************************************)
MaxDisconnects == 2

MAX_RECONNECT_ATTEMPTS == 5

INITIAL_RECONNECT_DELAY == 2

MAX_RECONNECT_DELAY == 30

\* the errors an exchange call raises: "network" for ccxt.NetworkError and
\* ccxt.ExchangeNotAvailable, "auth" for ccxt.AuthenticationError, "other"
\* for any other ccxt.BaseError
CcxtFailures == {"network", "auth", "other"}

\* a call made through RateLimiter.execute can also fail before it is made,
\* acquire raising RateLimitError
LimitedFailures == CcxtFailures \cup {"rate_limit"}

CXCall(what, outcome) == [kind |-> "call", what |-> what, outcome |-> outcome, delay |-> 0]

CXSlept(delay) == [kind |-> "sleep", what |-> "asyncio.sleep", outcome |-> "ok", delay |-> delay]

CXEvent(type) == [kind |-> "event", what |-> type, outcome |-> "ok", delay |-> 0]

CXRaised(error) == [kind |-> "raise", what |-> error, outcome |-> "ok", delay |-> 0]

CXInit ==
    /\ cx_pc = "stream"
    /\ cx_attempt = 0
    /\ cx_is_connected = TRUE
    /\ cx_reconnect_attempts = 0
    /\ cx_positions = <<>>
    /\ cx_orders = <<>>
    /\ cx_trace = <<>>
    /\ cx_result = "running"
    /\ cx_ndisconnects = 0

CXIdle == CXInit

\* delay = min(INITIAL_RECONNECT_DELAY * (2 ** attempt), MAX_RECONNECT_DELAY)
reconnect_delay_uncapped(attempt) == INITIAL_RECONNECT_DELAY * Pow2(attempt)

reconnect_delay(attempt) ==
    Min(INITIAL_RECONNECT_DELAY * Pow2(attempt), MAX_RECONNECT_DELAY)

\* the except clauses of _reconnect that fall through to the next attempt
next_attempt_after_any(failure) == TRUE

next_attempt_after(failure) == failure \in {"network", "other"}

\* open_positions of fetch_positions
open_positions(positions) == SelectSeq(positions, LAMBDA p : p.contracts > 0)

\* sl_orders of the audit
sl_orders(orders) ==
    SelectSeq(orders, LAMBDA o :
        Lower(o.type) \in {"stop_market", "stop", "stop_loss"} \/ o.stopPrice)

expected_sl_side(position) == IF Lower(position.side) = "long" THEN "sell" ELSE "buy"

has_sl_any_side(position, orders) == sl_orders(orders) /= <<>>

has_sl(position, orders) ==
    \E i \in 1..Len(sl_orders(orders)) :
        Lower(sl_orders(orders)[i].side) = expected_sl_side(position)

\* unprotected of the audit
unprotected(positions, orders) ==
    SelectSeq(positions, LAMBDA p : ~has_sl(p, orders))

\* the error fetch_positions raises for a failure of the call
fetch_positions_error(failure) ==
    CASE failure = "network" -> "ExchangeConnectionError"
      [] failure = "rate_limit" -> "RateLimitError"
      [] OTHER -> "ExchangeError"

\* watch_ohlcv raises in the streaming loop
CXWatchOhlcv ==
    /\ cx_pc = "stream"
    /\ cx_ndisconnects < MaxDisconnects
    /\ cx_ndisconnects' = cx_ndisconnects + 1
    /\ cx_positions' = <<>>
    /\ cx_orders' = <<>>
    /\ \E failure \in CcxtFailures :
          CASE failure = "network" ->
                  /\ cx_is_connected' = FALSE
                  /\ cx_trace' = <<CXCall("watch_ohlcv", failure),
                                   CXEvent("exchange.disconnected")>>
                  /\ cx_pc' = "sleep"
                  /\ cx_attempt' = 0
                  /\ UNCHANGED <<cx_reconnect_attempts, cx_result>>
            [] failure = "auth" ->
                  /\ cx_trace' = <<CXCall("watch_ohlcv", failure),
                                   CXEvent("error.critical"),
                                   CXRaised("ExchangeConnectionError")>>
                  /\ cx_pc' = "done"
                  /\ cx_result' = "ExchangeConnectionError"
                  /\ UNCHANGED <<cx_is_connected, cx_attempt, cx_reconnect_attempts>>
            [] OTHER ->
                  /\ cx_trace' = <<CXCall("watch_ohlcv", failure), CXRaised("ccxt.BaseError")>>
                  /\ cx_pc' = "done"
                  /\ cx_result' = "ccxt.BaseError"
                  /\ UNCHANGED <<cx_is_connected, cx_attempt, cx_reconnect_attempts>>

\* the head of an iteration of _reconnect, up to the end of the sleep
CXAttemptSleep ==
    /\ cx_pc = "sleep"
    /\ cx_reconnect_attempts' = cx_attempt + 1
    /\ cx_trace' = Append(cx_trace, CXSlept(reconnect_delay(cx_attempt)))
    /\ cx_pc' = "load"
    /\ UNCHANGED <<cx_attempt, cx_is_connected, cx_positions, cx_orders, cx_result,
                   cx_ndisconnects>>

\* load_markets of one attempt: on success the connector announces the
\* reconnection and enters the audit (the exchange then holds some positions
\* and open orders); on failure the next attempt follows, or, after the last
\* one, the tail of _reconnect
CXLoadMarkets ==
    /\ cx_pc = "load"
    /\ \/ /\ cx_is_connected' = TRUE
          /\ cx_reconnect_attempts' = 0
          /\ cx_trace' = cx_trace \o <<CXCall("load_markets", "ok"),
                                       CXEvent("exchange.reconnected")>>
          /\ cx_positions' \in SeqsUpTo(Positions, MaxPositions)
          /\ cx_orders' \in SeqsUpTo(OpenOrders, MaxOrders)
          /\ cx_pc' = "audit_positions"
          /\ UNCHANGED <<cx_attempt, cx_result, cx_ndisconnects>>
       \/ \E failure \in CcxtFailures :
            /\ UNCHANGED <<cx_is_connected, cx_reconnect_attempts, cx_positions, cx_orders,
                           cx_ndisconnects>>
            /\ IF next_attempt_after(failure)
               THEN IF cx_attempt + 1 < MAX_RECONNECT_ATTEMPTS
                    THEN /\ cx_trace' = Append(cx_trace, CXCall("load_markets", failure))
                         /\ cx_attempt' = cx_attempt + 1
                         /\ cx_pc' = "sleep"
                         /\ UNCHANGED cx_result
                    ELSE /\ cx_trace' = cx_trace \o <<CXCall("load_markets", failure),
                                                      CXEvent("error.critical"),
                                                      CXRaised("ExchangeConnectionError")>>
                         /\ cx_pc' = "done"
                         /\ cx_result' = "ExchangeConnectionError"
                         /\ UNCHANGED cx_attempt
               ELSE /\ cx_trace' = cx_trace \o <<CXCall("load_markets", failure),
                                                 CXEvent("error.critical"),
                                                 CXRaised("ExchangeConnectionError")>>
                    /\ cx_pc' = "done"
                    /\ cx_result' = "ExchangeConnectionError"
                    /\ UNCHANGED cx_attempt

\* the audit fetches the positions; without an open position it returns and
\* the streaming loop goes on
CXFetchPositions ==
    /\ cx_pc = "audit_positions"
    /\ UNCHANGED <<cx_attempt, cx_is_connected, cx_reconnect_attempts, cx_positions,
                   cx_orders, cx_ndisconnects>>
    /\ \/ /\ cx_trace' = Append(cx_trace, CXCall("fetch_positions", "ok"))
          /\ cx_pc' = IF open_positions(cx_positions) = <<>> THEN "stream" ELSE "audit_orders"
          /\ UNCHANGED cx_result
       \/ \E failure \in LimitedFailures :
            /\ cx_trace' = cx_trace \o <<CXCall("fetch_positions", failure),
                                         CXEvent("error.critical"),
                                         CXRaised(fetch_positions_error(failure))>>
            /\ cx_pc' = "done"
            /\ cx_result' = fetch_positions_error(failure)

\* the audit fetches the open orders and reports the positions without stop
CXFetchOpenOrders ==
    /\ cx_pc = "audit_orders"
    /\ UNCHANGED <<cx_attempt, cx_is_connected, cx_reconnect_attempts, cx_positions,
                   cx_orders, cx_ndisconnects>>
    /\ \/ /\ cx_trace' =
                IF unprotected(open_positions(cx_positions), cx_orders) /= <<>>
                THEN cx_trace \o <<CXCall("fetch_open_orders", "ok"), CXEvent("error.critical")>>
                ELSE Append(cx_trace, CXCall("fetch_open_orders", "ok"))
          /\ cx_pc' = "stream"
          /\ UNCHANGED cx_result
       \/ \E failure \in CcxtFailures :
            /\ cx_trace' = cx_trace \o <<CXCall("fetch_open_orders", failure),
                                         CXEvent("error.critical"),
                                         CXRaised("ExchangeConnectionError")>>
            /\ cx_pc' = "done"
            /\ cx_result' = "ExchangeConnectionError"
       \/ /\ cx_trace' = cx_trace \o <<CXCall("fetch_open_orders", "rate_limit"),
                                       CXRaised("RateLimitError")>>
          /\ cx_pc' = "done"
          /\ cx_result' = "RateLimitError"

CXNext ==
    \/ (CXWatchOhlcv /\ UNCHANGED <<te_vars, rc_vars, eb_vars, sm_vars, rl_vars, tc_vars, ap_vars, st_vars, lk_vars, re_vars, bt_vars, sy_vars>>)
    \/ (CXAttemptSleep /\ UNCHANGED <<te_vars, rc_vars, eb_vars, sm_vars, rl_vars, tc_vars, ap_vars, st_vars, lk_vars, re_vars, bt_vars, sy_vars>>)
    \/ (CXLoadMarkets /\ UNCHANGED <<te_vars, rc_vars, eb_vars, sm_vars, rl_vars, tc_vars, ap_vars, st_vars, lk_vars, re_vars, bt_vars, sy_vars>>)
    \/ (CXFetchPositions /\ UNCHANGED <<te_vars, rc_vars, eb_vars, sm_vars, rl_vars, tc_vars, ap_vars, st_vars, lk_vars, re_vars, bt_vars, sy_vars>>)
    \/ (CXFetchOpenOrders /\ UNCHANGED <<te_vars, rc_vars, eb_vars, sm_vars, rl_vars, tc_vars, ap_vars, st_vars, lk_vars, re_vars, bt_vars, sy_vars>>)

(***************************************************************************)
(* TradeExecutor._handle_trade_closed, the handler of trade.sl_hit and     *)
(* trade.tp_hit (src/src/trading/trade_executor.py, lines 129-194).  The   *)
(* handler suspends at fetch_balance, where other invocations may run.     *)
(***************************************************************************)
MaxHits == 3

\* ids of the trades the executor may hold, and one it never opened
OpenableTradeIds == {1, 2}

UnknownTradeId == 3

HitTypes == {"trade.sl_hit", "trade.tp_hit"}

\* capital_before of a record, free balance after the close
Capitals == {10, 11}

FreeBalances == {8, 10, 13}

\* exit_price of the event (NoPrice for None), levels of the record
ExitPrices == {NoPrice, 30}

RecordStopLoss == 17

RecordTakeProfit == 26

\* dict.pop(trade_id, None)
NoRecord == -1

Hit(id, type, exit_price, record, pc) ==
    [trade_id |-> id, type |-> type, exit_price |-> exit_price, record |-> record, pc |-> pc]

TCCall(what, id, outcome) ==
    [kind |-> "call", what |-> what, trade_id |-> id, outcome |-> outcome, pnl |-> 0,
     exit_price |-> NoPrice]

TCEvent(type, id, pnl, exit_price) ==
    [kind |-> "event", what |-> type, trade_id |-> id, outcome |-> "ok", pnl |-> pnl,
     exit_price |-> exit_price]

TCInit ==
    /\ \E ids \in SUBSET OpenableTradeIds : tc_open_trades \in [ids -> Capitals]
    /\ tc_closed_trades = <<>>
    /\ tc_hits = <<>>
    /\ tc_trace = <<>>

TCIdle ==
    /\ tc_open_trades = <<>>
    /\ tc_closed_trades = <<>>
    /\ tc_hits = <<>>
    /\ tc_trace = <<>>

\* lines 141-146
exit_price_of(type, event_exit_price) ==
    IF event_exit_price /= NoPrice THEN event_exit_price
    ELSE IF type = "trade.sl_hit" THEN RecordStopLoss
    ELSE RecordTakeProfit

\* _open_trades after pop(trade_id, None)
open_trades_after_pop(open_trades, id) ==
    [i \in (DOMAIN open_trades) \ {id} |-> open_trades[i]]

\* lines 131-135: the head of the handler, up to the await of fetch_balance;
\* an unknown id only logs a warning
TCHandleTradeClosed ==
    /\ Len(tc_hits) < MaxHits
    /\ \E id \in OpenableTradeIds \cup {UnknownTradeId}, type \in HitTypes,
          exit_price \in ExitPrices :
        IF id \in DOMAIN tc_open_trades
        THEN /\ tc_hits' = Append(tc_hits,
                    Hit(id, type, exit_price, tc_open_trades[id], "fetch_balance"))
             /\ tc_open_trades' = open_trades_after_pop(tc_open_trades, id)
        ELSE /\ tc_hits' = Append(tc_hits, Hit(id, type, exit_price, NoRecord, "returned"))
             /\ tc_open_trades' = tc_open_trades
    /\ UNCHANGED <<tc_closed_trades, tc_trace>>

\* lines 136-193: fetch_balance returns or raises; on return the result is
\* stored and trade.closed is emitted, an exception is only logged
TCFetchBalance ==
    \E k \in 1..Len(tc_hits) :
        /\ tc_hits[k].pc = "fetch_balance"
        /\ \/ \E free \in FreeBalances :
                LET h == tc_hits[k]
                    pnl == free - h.record
                    exit_price == exit_price_of(h.type, h.exit_price) IN
                /\ tc_closed_trades' =
                      [i \in (DOMAIN tc_closed_trades) \cup {h.trade_id} |->
                          IF i = h.trade_id
                          THEN [pnl |-> pnl, exit_price |-> exit_price,
                                capital_before |-> h.record, capital_after |-> free]
                          ELSE tc_closed_trades[i]]
                /\ tc_trace' = tc_trace \o
                      <<TCCall("fetch_balance", h.trade_id, "ok"),
                        TCEvent("trade.closed", h.trade_id, pnl, exit_price)>>
                /\ tc_hits' = [tc_hits EXCEPT ![k].pc = "closed"]
           \/ /\ tc_trace' = Append(tc_trace,
                                    TCCall("fetch_balance", tc_hits[k].trade_id, "raise"))
              /\ tc_hits' = [tc_hits EXCEPT ![k].pc = "failed"]
              /\ UNCHANGED tc_closed_trades
        /\ UNCHANGED tc_open_trades

TCNext ==
    \/ (TCHandleTradeClosed /\ UNCHANGED <<te_vars, rc_vars, eb_vars, sm_vars, rl_vars, cx_vars, ap_vars, st_vars, lk_vars, re_vars, bt_vars, sy_vars>>)
    \/ (TCFetchBalance /\ UNCHANGED <<te_vars, rc_vars, eb_vars, sm_vars, rl_vars, cx_vars, ap_vars, st_vars, lk_vars, re_vars, bt_vars, sy_vars>>)

(***************************************************************************)
(* TradingApp.run_live from its main loop to its end (src/src/core/app.py, *)
(* lines 373-410) with _verify_tpsl_on_shutdown (lines 217-256).  The      *)
(* coroutine is followed from one await to the next; while it is suspended *)
(* the event loop may run the background tasks, which is where a task that *)
(* was cancelled terminates.  Awaiting a task that is already done does    *)
(* not suspend the caller.                                                 *)
(***************************************************************************)
StopKinds == {"signal", "stop_flag"}

AuditOutcomes ==
    {"protected", "unprotected", "no_position",
     "fetch_positions_error", "fetch_open_orders_error"}

Step(step, outcome) == [step |-> step, outcome |-> outcome]

\* the main loop is running: the lock is held, the stale stop marker was removed
APInit ==
    /\ ap_pc = "loop"
    /\ ap_candle_task = "running"
    /\ ap_backup_task = "running"
    /\ ap_stop = "none"
    /\ ap_has_trades \in BOOLEAN
    /\ ap_files = {"trading.lock"}
    /\ ap_steps = <<>>
    /\ ap_error = "none"
    /\ ap_result = "pending"

APIdle ==
    /\ ap_pc = "idle"
    /\ ap_candle_task = "running"
    /\ ap_backup_task = "running"
    /\ ap_stop = "none"
    /\ ap_has_trades = FALSE
    /\ ap_files = {}
    /\ ap_steps = <<>>
    /\ ap_error = "none"
    /\ ap_result = "pending"

\* watch_candles raises (authentication failure, reconnection given up, or
\* an error it does not catch): the task is done, holding its exception
APWatcherFails ==
    /\ ap_pc = "loop"
    /\ ap_candle_task = "running"
    /\ ap_candle_task' = "failed"
    /\ UNCHANGED <<ap_pc, ap_backup_task, ap_stop, ap_has_trades, ap_files, ap_steps,
                   ap_error, ap_result>>

\* SIGTERM/SIGINT sets shutdown_event, or the stop marker is created
APRequestStop ==
    /\ ap_pc = "loop"
    /\ ap_stop = "none"
    /\ \E kind \in StopKinds :
        /\ ap_stop' = kind
        /\ ap_files' = IF kind = "stop_flag" THEN ap_files \cup {"stop.flag"} ELSE ap_files
    /\ UNCHANGED <<ap_pc, ap_candle_task, ap_backup_task, ap_has_trades, ap_steps,
                   ap_error, ap_result>>

\* Task.cancel(): no effect on a task that is done
cancel(task) == IF task = "running" THEN "cancelling" ELSE task

\* the loop condition turns false; inner finally: both tasks are cancelled
APLeaveLoop ==
    /\ ap_pc = "loop"
    /\ ap_stop /= "none"
    /\ ap_candle_task' = cancel(ap_candle_task)
    /\ ap_backup_task' = cancel(ap_backup_task)
    /\ ap_steps' = Append(ap_steps, Step("cancel_tasks", "ok"))
    /\ ap_pc' = "await_candle"
    /\ UNCHANGED <<ap_stop, ap_has_trades, ap_files, ap_error, ap_result>>

\* run_live is suspended at an await that has not completed
Suspended ==
    \/ ap_pc = "await_candle" /\ ap_candle_task = "cancelling"
    \/ ap_pc = "await_backup" /\ ap_backup_task = "cancelling"
    \/ ap_pc \in {"audit_fetch", "disconnect_close"}

\* the event loop throws CancelledError into a cancelled task
APTaskCancelled ==
    /\ Suspended
    /\ \/ /\ ap_candle_task = "cancelling"
          /\ ap_candle_task' = "cancelled"
          /\ UNCHANGED ap_backup_task
       \/ /\ ap_backup_task = "cancelling"
          /\ ap_backup_task' = "cancelled"
          /\ UNCHANGED ap_candle_task
    /\ UNCHANGED <<ap_pc, ap_stop, ap_has_trades, ap_files, ap_steps, ap_error, ap_result>>

\* "await candle_task" inside try/except CancelledError: the exception of a
\* failed task is raised out of both try blocks, to the outer finally
APAwaitCandle ==
    /\ ap_pc = "await_candle"
    /\ ap_candle_task \in {"cancelled", "failed"}
    /\ IF ap_candle_task = "cancelled"
       THEN ap_pc' = "await_backup" /\ UNCHANGED ap_error
       ELSE ap_pc' = "audit" /\ ap_error' = "watcher_error"
    /\ UNCHANGED <<ap_candle_task, ap_backup_task, ap_stop, ap_has_trades, ap_files,
                   ap_steps, ap_result>>

APAwaitBackup ==
    /\ ap_pc = "await_backup"
    /\ ap_backup_task = "cancelled"
    /\ ap_pc' = "audit"
    /\ UNCHANGED <<ap_candle_task, ap_backup_task, ap_stop, ap_has_trades, ap_files,
                   ap_steps, ap_error, ap_result>>

\* outer finally: _verify_tpsl_on_shutdown, which returns at once when no
\* trade is active
APAudit ==
    /\ ap_pc = "audit"
    /\ IF ap_has_trades
       THEN ap_pc' = "audit_fetch" /\ UNCHANGED ap_steps
       ELSE /\ ap_pc' = "disconnect"
            /\ ap_steps' = Append(ap_steps, Step("audit", "no_active_trade"))
    /\ UNCHANGED <<ap_candle_task, ap_backup_task, ap_stop, ap_has_trades, ap_files,
                   ap_error, ap_result>>

\* fetch_positions and fetch_open_orders: every outcome, an exchange error
\* included, is logged and the audit returns
APAuditFetch ==
    /\ ap_pc = "audit_fetch"
    /\ \E outcome \in AuditOutcomes :
        ap_steps' = Append(ap_steps, Step("audit", outcome))
    /\ ap_pc' = "disconnect"
    /\ UNCHANGED <<ap_candle_task, ap_backup_task, ap_stop, ap_has_trades, ap_files,
                   ap_error, ap_result>>

\* connector.disconnect() up to "await self._exchange.close()"
APDisconnect ==
    /\ ap_pc = "disconnect"
    /\ ap_pc' = "disconnect_close"
    /\ UNCHANGED <<ap_candle_task, ap_backup_task, ap_stop, ap_has_trades, ap_files,
                   ap_steps, ap_error, ap_result>>

\* close() returns, or raises: nothing in the finally block catches it
APDisconnectClose ==
    /\ ap_pc = "disconnect_close"
    /\ \E outcome \in {"ok", "raise"} :
        /\ ap_steps' = Append(ap_steps, Step("disconnect", outcome))
        /\ IF outcome = "ok"
           THEN ap_pc' = "release" /\ UNCHANGED <<ap_error, ap_result>>
           ELSE ap_pc' = "done" /\ ap_error' = "disconnect_error" /\ ap_result' = "raised"
    /\ UNCHANGED <<ap_candle_task, ap_backup_task, ap_stop, ap_has_trades, ap_files>>

\* lock.release() then stop_flag.unlink(missing_ok=True)
APReleaseAndUnlink ==
    /\ ap_pc = "release"
    /\ ap_files' = (ap_files \ {"trading.lock"}) \ {"stop.flag"}
    /\ ap_steps' = ap_steps \o <<Step("lock_release", "ok"), Step("stop_flag_unlink", "ok")>>
    /\ ap_pc' = "emit"
    /\ UNCHANGED <<ap_candle_task, ap_backup_task, ap_stop, ap_has_trades, ap_error,
                   ap_result>>

\* emit(APP_STOPPED); then the pending exception, if any, leaves run_live
APEmitStopped ==
    /\ ap_pc = "emit"
    /\ ap_steps' = Append(ap_steps, Step("app_stopped", "ok"))
    /\ ap_pc' = "done"
    /\ ap_result' = IF ap_error = "none" THEN "returned" ELSE "raised"
    /\ UNCHANGED <<ap_candle_task, ap_backup_task, ap_stop, ap_has_trades, ap_files,
                   ap_error>>

APNext ==
    \/ (APWatcherFails /\ UNCHANGED <<te_vars, rc_vars, eb_vars, sm_vars, rl_vars, cx_vars, tc_vars, st_vars, lk_vars, re_vars, bt_vars, sy_vars>>)
    \/ (APRequestStop /\ UNCHANGED <<te_vars, rc_vars, eb_vars, sm_vars, rl_vars, cx_vars, tc_vars, st_vars, lk_vars, re_vars, bt_vars, sy_vars>>)
    \/ (APLeaveLoop /\ UNCHANGED <<te_vars, rc_vars, eb_vars, sm_vars, rl_vars, cx_vars, tc_vars, st_vars, lk_vars, re_vars, bt_vars, sy_vars>>)
    \/ (APTaskCancelled /\ UNCHANGED <<te_vars, rc_vars, eb_vars, sm_vars, rl_vars, cx_vars, tc_vars, st_vars, lk_vars, re_vars, bt_vars, sy_vars>>)
    \/ (APAwaitCandle /\ UNCHANGED <<te_vars, rc_vars, eb_vars, sm_vars, rl_vars, cx_vars, tc_vars, st_vars, lk_vars, re_vars, bt_vars, sy_vars>>)
    \/ (APAwaitBackup /\ UNCHANGED <<te_vars, rc_vars, eb_vars, sm_vars, rl_vars, cx_vars, tc_vars, st_vars, lk_vars, re_vars, bt_vars, sy_vars>>)
    \/ (APAudit /\ UNCHANGED <<te_vars, rc_vars, eb_vars, sm_vars, rl_vars, cx_vars, tc_vars, st_vars, lk_vars, re_vars, bt_vars, sy_vars>>)
    \/ (APAuditFetch /\ UNCHANGED <<te_vars, rc_vars, eb_vars, sm_vars, rl_vars, cx_vars, tc_vars, st_vars, lk_vars, re_vars, bt_vars, sy_vars>>)
    \/ (APDisconnect /\ UNCHANGED <<te_vars, rc_vars, eb_vars, sm_vars, rl_vars, cx_vars, tc_vars, st_vars, lk_vars, re_vars, bt_vars, sy_vars>>)
    \/ (APDisconnectClose /\ UNCHANGED <<te_vars, rc_vars, eb_vars, sm_vars, rl_vars, cx_vars, tc_vars, st_vars, lk_vars, re_vars, bt_vars, sy_vars>>)
    \/ (APReleaseAndUnlink /\ UNCHANGED <<te_vars, rc_vars, eb_vars, sm_vars, rl_vars, cx_vars, tc_vars, st_vars, lk_vars, re_vars, bt_vars, sy_vars>>)
    \/ (APEmitStopped /\ UNCHANGED <<te_vars, rc_vars, eb_vars, sm_vars, rl_vars, cx_vars, tc_vars, st_vars, lk_vars, re_vars, bt_vars, sy_vars>>)

\* what the part of run_live between lock.acquire() and the main loop does
\* (lines 291-381): a step of it raises, or the loop is entered
StartupOutcomes ==
    {"connector_error", "health_check_error", "recovery_error", "save_error", "ok"}

\* lock.acquire() has returned (line 286); no task is created yet
APInitLocked ==
    /\ ap_pc = "startup"
    /\ ap_candle_task = "not_created"
    /\ ap_backup_task = "not_created"
    /\ ap_stop = "none"
    /\ ap_has_trades \in BOOLEAN
    /\ ap_files = {"trading.lock"}
    /\ ap_steps = <<>>
    /\ ap_error = "none"
    /\ ap_result = "pending"

\* an exception before the loop goes to the outer finally, which skips the
\* audit while app_state is None and the disconnect while connector is None
APStartup ==
    /\ ap_pc = "startup"
    /\ \E outcome \in StartupOutcomes :
        /\ ap_pc' = CASE outcome = "connector_error" -> "release"
                      [] outcome \in {"health_check_error", "recovery_error"} -> "disconnect"
                      [] outcome = "save_error" -> "audit"
                      [] OTHER -> "loop"
        /\ ap_error' = IF outcome = "ok" THEN "none" ELSE outcome
        /\ ap_candle_task' = IF outcome = "ok" THEN "running" ELSE ap_candle_task
        /\ ap_backup_task' = IF outcome = "ok" THEN "running" ELSE ap_backup_task
    /\ UNCHANGED <<ap_stop, ap_has_trades, ap_files, ap_steps, ap_result>>

APRunLiveNext ==
    \/ (APStartup /\ UNCHANGED <<te_vars, rc_vars, eb_vars, sm_vars, rl_vars, cx_vars, tc_vars, st_vars, lk_vars, re_vars, bt_vars, sy_vars>>)
    \/ APNext

(***************************************************************************)
(* StateManager (src/src/core/state_manager.py) under the two bus handlers *)
(* of run_live that keep app_state and save it (src/src/core/app.py, lines *)
(* 308-344).  A file is [exists, data, written, size]: the JSON document   *)
(* it was opened for and how many of its "size" blocks reached the file.   *)
(* A crash ends the process and leaves the files as the operating system   *)
(* holds them.  Timestamps are left out of AppState.                       *)
(***************************************************************************)
MaxSaves == 3
FileBlocks == 2
StrategyNames == {"s1", "s2"}
EventConditionIndexes == {0, 1}
EventTradeIds == {"t1", "t2"}
NoneIndex == -1
StrategyEventTypes ==
    {"strategy.condition_met", "strategy.signal_long", "strategy.signal_short",
     "strategy.timeout"}
TradeEventTypes == {"trade.opened", "trade.closed"}

\* StrategyState and AppState (src/src/models/state.py)
StrategyState(state, conditions_met, last_condition_candle, current_trade_id) ==
    [state |-> state, conditions_met |-> conditions_met,
     last_condition_candle |-> last_condition_candle,
     current_trade_id |-> current_trade_id]

AppState(strategy_states, active_trades) ==
    [strategy_states |-> strategy_states, active_trades |-> active_trades]

EmptyAppState == AppState(<<>>, <<>>)

\* app_state when the handlers are subscribed: AppState(), or the state
\* crash recovery returned
StartupAppStates ==
    {EmptyAppState,
     AppState([n \in {"s1"} |-> StrategyState("IN_TRADE", <<0, 1>>, 3, "t1")], <<"t1">>)}

\* JSON values
JNull == [t |-> "null"]
JInt(i) == [t |-> "int", v |-> i]
JStr(s) == [t |-> "str", v |-> s]

\* faulty variant: None written as its text
dump_optional_str_as_text(x) == JStr(IF x = NoneVal THEN "None" ELSE x)

\* model_dump(mode="json") of "str | None"
dump_optional_str(x) == IF x = NoneVal THEN JNull ELSE JStr(x)

\* model_dump(mode="json") of "int | None"
dump_optional_int(x) == IF x = NoCandle THEN JNull ELSE JInt(x)

\* AppState.model_dump(mode="json"): a StrEnum member becomes its value
model_dump(app_state) ==
    [strategy_states |->
        [n \in DOMAIN app_state.strategy_states |->
            LET s == app_state.strategy_states[n] IN
            [state |-> JStr(s.state),
             conditions_met |-> [i \in 1..Len(s.conditions_met) |-> JInt(s.conditions_met[i])],
             last_condition_candle |-> dump_optional_int(s.last_condition_candle),
             current_trade_id |-> dump_optional_str(s.current_trade_id)]],
     active_trades |->
        [i \in 1..Len(app_state.active_trades) |-> JStr(app_state.active_trades[i])]]

\* AppState.model_validate accepts the document (no ValidationError)
model_valid(data) ==
    /\ \A n \in DOMAIN data.strategy_states :
        LET s == data.strategy_states[n] IN
        /\ s.state.t = "str" /\ s.state.v \in StrategyStateEnum
        /\ \A i \in 1..Len(s.conditions_met) : s.conditions_met[i].t = "int"
        /\ s.last_condition_candle.t \in {"null", "int"}
        /\ s.current_trade_id.t \in {"null", "str"}
    /\ \A i \in 1..Len(data.active_trades) : data.active_trades[i].t = "str"

\* AppState.model_validate of an accepted document
model_validate(data) ==
    AppState(
        [n \in DOMAIN data.strategy_states |->
            LET s == data.strategy_states[n] IN
            StrategyState(
                s.state.v,
                [i \in 1..Len(s.conditions_met) |-> s.conditions_met[i].v],
                IF s.last_condition_candle.t = "null" THEN NoCandle
                ELSE s.last_condition_candle.v,
                IF s.current_trade_id.t = "null" THEN NoneVal ELSE s.current_trade_id.v)],
        [i \in 1..Len(data.active_trades) |-> data.active_trades[i].v])

File(data, written, size) == [exists |-> TRUE, data |-> data, written |-> written, size |-> size]
Missing == [exists |-> FALSE, data |-> model_dump(EmptyAppState), written |-> 0, size |-> 0]

\* results of load
Loaded(app_state) == [kind |-> "state", state |-> app_state]
LoadedNone == [kind |-> "None", state |-> EmptyAppState]
NotLoaded == [kind |-> "pending", state |-> EmptyAppState]

\* json.loads: a proper prefix of a serialised object is not a JSON document
json_loads_ok(file) == file.written = file.size

\* StateManager.load
load(file) ==
    IF ~file.exists THEN LoadedNone
    ELSE IF ~json_loads_ok(file) THEN LoadedNone
    ELSE IF ~model_valid(file.data) THEN LoadedNone
    ELSE Loaded(model_validate(file.data))

STInit ==
    /\ st_app_state \in StartupAppStates
    /\ st_path = Missing
    /\ st_tmp = Missing
    /\ st_pc = "idle"
    /\ st_previous = LoadedNone
    /\ st_loaded = NotLoaded
    /\ st_nsaves = 0

STIdle ==
    /\ st_app_state = EmptyAppState
    /\ st_path = Missing
    /\ st_tmp = Missing
    /\ st_pc = "off"
    /\ st_previous = LoadedNone
    /\ st_loaded = NotLoaded
    /\ st_nsaves = 0

\* between two saves
STReady == st_pc \in {"idle", "saved", "save_failed"} /\ st_nsaves < MaxSaves

\* entry of StateManager.save
STBeginSave ==
    /\ st_pc' = "open"
    /\ st_loaded' = NotLoaded
    /\ st_nsaves' = st_nsaves + 1
    /\ UNCHANGED <<st_path, st_tmp, st_previous>>

\* state_manager.save(app_state) of run_live before the handlers are subscribed
STStartupSave ==
    /\ st_pc = "idle"
    /\ st_nsaves = 0
    /\ STBeginSave
    /\ UNCHANGED st_app_state

remove(seq, x) == SelectSeq(seq, LAMBDA y : y /= x)
contains(seq, x) == \E i \in 1..Len(seq) : seq[i] = x

\* _on_strategy_event up to its call of save
on_strategy_event(app_state, name, type, condition_index) ==
    LET ss == app_state.strategy_states
        s == IF name \in DOMAIN ss THEN ss[name]
             ELSE StrategyState("IDLE", <<>>, NoCandle, NoneVal)
        t == CASE type \in {"strategy.signal_long", "strategy.signal_short"} ->
                    [s EXCEPT !.state = "SIGNAL_READY", !.conditions_met = <<>>]
               [] type = "strategy.condition_met" ->
                    [s EXCEPT !.state = "WATCHING",
                              !.conditions_met =
                                  IF condition_index /= NoneIndex
                                     /\ ~contains(s.conditions_met, condition_index)
                                  THEN Append(s.conditions_met, condition_index)
                                  ELSE s.conditions_met]
               [] OTHER ->
                    [s EXCEPT !.state = "IDLE", !.conditions_met = <<>>]
    IN  AppState([n \in DOMAIN ss \cup {name} |-> IF n = name THEN t ELSE ss[n]],
                 app_state.active_trades)

\* _on_trade_event up to its call of save
on_trade_event(app_state, type, trade_id) ==
    LET ss == app_state.strategy_states
        active == app_state.active_trades
    IN  IF type = "trade.opened"
        THEN AppState(
                [n \in DOMAIN ss |->
                    IF ss[n].state = "SIGNAL_READY" THEN [ss[n] EXCEPT !.state = "IN_TRADE"]
                    ELSE ss[n]],
                IF contains(active, trade_id) THEN active ELSE Append(active, trade_id))
        ELSE LET left == IF contains(active, trade_id) THEN remove(active, trade_id)
                         ELSE active
             IN  AppState(
                    [n \in DOMAIN ss |->
                        IF left = <<>> /\ ss[n].state = "IN_TRADE"
                        THEN [ss[n] EXCEPT !.state = "IDLE"]
                        ELSE ss[n]],
                    left)

STOnStrategyEvent ==
    /\ STReady
    /\ st_nsaves > 0
    /\ \E name \in StrategyNames, type \in StrategyEventTypes,
          condition_index \in EventConditionIndexes \cup {NoneIndex} :
        st_app_state' = on_strategy_event(st_app_state, name, type, condition_index)
    /\ STBeginSave

STOnTradeEvent ==
    /\ STReady
    /\ st_nsaves > 0
    /\ \E type \in TradeEventTypes, trade_id \in EventTradeIds :
        st_app_state' = on_trade_event(st_app_state, type, trade_id)
    /\ STBeginSave

\* faulty variant: the target itself is opened for writing
STOpenPath ==
    /\ st_pc = "open"
    /\ st_path' = File(model_dump(st_app_state), 0, FileBlocks)
    /\ st_tmp' = File(model_dump(st_app_state), 0, FileBlocks)
    /\ st_pc' = "write"
    /\ UNCHANGED <<st_app_state, st_previous, st_loaded, st_nsaves>>

\* _write_atomic: open(tmp_path, "w") creates the temporary file or empties it
STOpenTmp ==
    /\ st_pc = "open"
    /\ st_tmp' = File(model_dump(st_app_state), 0, FileBlocks)
    /\ st_pc' = "write"
    /\ UNCHANGED <<st_app_state, st_path, st_previous, st_loaded, st_nsaves>>

\* f.write(data); f.flush(): the document reaches the file block by block
STWriteBlock ==
    /\ st_pc = "write"
    /\ st_tmp' = [st_tmp EXCEPT !.written = @ + 1]
    /\ st_pc' = IF st_tmp.written + 1 = st_tmp.size THEN "fsync" ELSE "write"
    /\ UNCHANGED <<st_app_state, st_path, st_previous, st_loaded, st_nsaves>>

\* os.fsync returns, or raises OSError which is logged; the file is closed
STFsync ==
    /\ st_pc = "fsync"
    /\ st_pc' = "replace"
    /\ UNCHANGED <<st_app_state, st_path, st_tmp, st_previous, st_loaded, st_nsaves>>

\* os.replace(tmp_path, self._path): atomic rename over the target
STReplace ==
    /\ st_pc = "replace"
    /\ st_path' = st_tmp
    /\ st_tmp' = Missing
    /\ st_pc' = "saved"
    /\ st_previous' = Loaded(st_app_state)
    /\ UNCHANGED <<st_app_state, st_loaded, st_nsaves>>

\* open, write or replace raises: the temporary file is removed and the
\* exception leaves save
STSaveRaises ==
    /\ st_pc \in {"open", "write", "replace"}
    /\ st_tmp' = Missing
    /\ st_pc' = "save_failed"
    /\ UNCHANGED <<st_app_state, st_path, st_previous, st_loaded, st_nsaves>>

\* the process dies inside save, or after the rename before anything else
STCrash ==
    /\ st_pc \in {"open", "write", "fsync", "replace", "saved"}
    /\ st_loaded = NotLoaded
    /\ st_pc' = "crashed"
    /\ UNCHANGED <<st_app_state, st_path, st_tmp, st_previous, st_loaded, st_nsaves>>

\* StateManager.load, after a save returned or by the next process
STLoad ==
    /\ st_pc \in {"saved", "save_failed", "crashed"}
    /\ st_loaded = NotLoaded
    /\ st_loaded' = load(st_path)
    /\ UNCHANGED <<st_app_state, st_path, st_tmp, st_pc, st_previous, st_nsaves>>

STNext ==
    \/ (STStartupSave /\ UNCHANGED <<te_vars, rc_vars, eb_vars, sm_vars, rl_vars, cx_vars, tc_vars, ap_vars, lk_vars, re_vars, bt_vars, sy_vars>>)
    \/ (STOnStrategyEvent /\ UNCHANGED <<te_vars, rc_vars, eb_vars, sm_vars, rl_vars, cx_vars, tc_vars, ap_vars, lk_vars, re_vars, bt_vars, sy_vars>>)
    \/ (STOnTradeEvent /\ UNCHANGED <<te_vars, rc_vars, eb_vars, sm_vars, rl_vars, cx_vars, tc_vars, ap_vars, lk_vars, re_vars, bt_vars, sy_vars>>)
    \/ (STOpenTmp /\ UNCHANGED <<te_vars, rc_vars, eb_vars, sm_vars, rl_vars, cx_vars, tc_vars, ap_vars, lk_vars, re_vars, bt_vars, sy_vars>>)
    \/ (STWriteBlock /\ UNCHANGED <<te_vars, rc_vars, eb_vars, sm_vars, rl_vars, cx_vars, tc_vars, ap_vars, lk_vars, re_vars, bt_vars, sy_vars>>)
    \/ (STFsync /\ UNCHANGED <<te_vars, rc_vars, eb_vars, sm_vars, rl_vars, cx_vars, tc_vars, ap_vars, lk_vars, re_vars, bt_vars, sy_vars>>)
    \/ (STReplace /\ UNCHANGED <<te_vars, rc_vars, eb_vars, sm_vars, rl_vars, cx_vars, tc_vars, ap_vars, lk_vars, re_vars, bt_vars, sy_vars>>)
    \/ (STSaveRaises /\ UNCHANGED <<te_vars, rc_vars, eb_vars, sm_vars, rl_vars, cx_vars, tc_vars, ap_vars, lk_vars, re_vars, bt_vars, sy_vars>>)
    \/ (STCrash /\ UNCHANGED <<te_vars, rc_vars, eb_vars, sm_vars, rl_vars, cx_vars, tc_vars, ap_vars, lk_vars, re_vars, bt_vars, sy_vars>>)
    \/ (STLoad /\ UNCHANGED <<te_vars, rc_vars, eb_vars, sm_vars, rl_vars, cx_vars, tc_vars, ap_vars, lk_vars, re_vars, bt_vars, sy_vars>>)

(***************************************************************************)
(* LockFile (src/src/core/lock.py).  Two processes, whose pids are their   *)
(* numbers, use the same path; each system call on the file is one step.   *)
(* The lock file is [kind, pid]: "record" is {pid, started_at} as written  *)
(* by _write_lock (started_at is not modelled), "empty" is the file just   *)
(* opened for writing, the other kinds are contents found at startup.      *)
(***************************************************************************)
LockProcs == {1, 2}
ForeignAlivePid == 3
DeadPid == 4
NoPid == 0

LockContent(kind, pid) == [kind |-> kind, pid |-> pid]
Absent == LockContent("absent", NoPid)

\* contents from which _handle_existing_lock reads no pid: json.loads fails
\* ("empty", "garbage"), KeyError ("no_pid"), ValueError of int() ("bad_pid")
CorruptKinds == {"empty", "garbage", "no_pid", "bad_pid"}

\* valid JSON on which data["pid"] or int() raises TypeError (not an
\* object, or a null pid)
OtherShapeKinds == {"other_shape"}

StartupLockFiles ==
    {Absent, LockContent("record", ForeignAlivePid), LockContent("record", DeadPid)}
    \cup {LockContent(k, NoPid) : k \in (CorruptKinds \ {"empty"}) \cup OtherShapeKinds}

\* faulty variant: every recorded pid is taken for a dead process
is_process_running_never(pid) == FALSE

\* _is_process_running: os.kill(pid, 0)
is_process_running(pid) == pid \in LockProcs \cup {ForeignAlivePid}

LockProc(pc, pid, result, before) ==
    [pc |-> pc, pid |-> pid, result |-> result, before |-> before]

LKInit ==
    /\ lk_file \in StartupLockFiles
    /\ lk_proc = [p \in LockProcs |-> LockProc("start", NoPid, "pending", Absent)]

LKIdle ==
    /\ lk_file = Absent
    /\ lk_proc = [p \in LockProcs |-> LockProc("off", NoPid, "pending", Absent)]

\* acquire: "if self._path.exists()"
LKExists(p) ==
    /\ lk_proc[p].pc = "start"
    /\ lk_proc' = [lk_proc EXCEPT ![p].pc = IF lk_file.kind = "absent" THEN "write" ELSE "read",
                                  ![p].before = lk_file]
    /\ UNCHANGED lk_file

\* _handle_existing_lock: read_text, json.loads, int(data["pid"]); a file
\* removed since the existence check gives FileNotFoundError, an OSError
LKRead(p) ==
    /\ lk_proc[p].pc = "read"
    /\ lk_proc' =
        [lk_proc EXCEPT ![p] =
            CASE lk_file.kind = "record" -> [@ EXCEPT !.pc = "probe", !.pid = lk_file.pid]
              [] lk_file.kind \in OtherShapeKinds ->
                    [@ EXCEPT !.pc = "done", !.result = "TypeError"]
              [] OTHER -> [@ EXCEPT !.pc = "unlink"]]
    /\ UNCHANGED lk_file

\* "if not _is_process_running(pid)", else LockError
LKProbe(p) ==
    /\ lk_proc[p].pc = "probe"
    /\ lk_proc' =
        [lk_proc EXCEPT ![p] =
            IF is_process_running(@.pid)
            THEN [@ EXCEPT !.pc = "done", !.result = "LockError"]
            ELSE [@ EXCEPT !.pc = "unlink"]]
    /\ UNCHANGED lk_file

\* self._path.unlink(missing_ok=True) of a corrupt or stale lock
LKUnlink(p) ==
    /\ lk_proc[p].pc = "unlink"
    /\ lk_file' = Absent
    /\ lk_proc' = [lk_proc EXCEPT ![p].pc = "write"]

\* _write_lock: write_text opens the file for writing, which creates it or
\* empties it
LKOpen(p) ==
    /\ lk_proc[p].pc = "write"
    /\ lk_file' = LockContent("empty", NoPid)
    /\ lk_proc' = [lk_proc EXCEPT ![p].pc = "write_data"]

\* write_text writes the record and closes; acquire returns
LKWrite(p) ==
    /\ lk_proc[p].pc = "write_data"
    /\ lk_file' = LockContent("record", p)
    /\ lk_proc' = [lk_proc EXCEPT ![p].pc = "acquired", ![p].result = "acquired"]

\* release: unlink(missing_ok=True), by the holder and once more after it
LKRelease(p) ==
    /\ lk_proc[p].pc \in {"acquired", "released"}
    /\ lk_file' = Absent
    /\ lk_proc' = [lk_proc EXCEPT ![p].pc = IF @ = "acquired" THEN "released"
                                            ELSE "released_again",
                                  ![p].before = lk_file]

LKNext ==
    \/ \E p \in LockProcs : (LKExists(p) /\ UNCHANGED <<te_vars, rc_vars, eb_vars, sm_vars, rl_vars, cx_vars, tc_vars, ap_vars, st_vars, re_vars, bt_vars, sy_vars>>)
    \/ \E p \in LockProcs : (LKRead(p) /\ UNCHANGED <<te_vars, rc_vars, eb_vars, sm_vars, rl_vars, cx_vars, tc_vars, ap_vars, st_vars, re_vars, bt_vars, sy_vars>>)
    \/ \E p \in LockProcs : (LKProbe(p) /\ UNCHANGED <<te_vars, rc_vars, eb_vars, sm_vars, rl_vars, cx_vars, tc_vars, ap_vars, st_vars, re_vars, bt_vars, sy_vars>>)
    \/ \E p \in LockProcs : (LKUnlink(p) /\ UNCHANGED <<te_vars, rc_vars, eb_vars, sm_vars, rl_vars, cx_vars, tc_vars, ap_vars, st_vars, re_vars, bt_vars, sy_vars>>)
    \/ \E p \in LockProcs : (LKOpen(p) /\ UNCHANGED <<te_vars, rc_vars, eb_vars, sm_vars, rl_vars, cx_vars, tc_vars, ap_vars, st_vars, re_vars, bt_vars, sy_vars>>)
    \/ \E p \in LockProcs : (LKWrite(p) /\ UNCHANGED <<te_vars, rc_vars, eb_vars, sm_vars, rl_vars, cx_vars, tc_vars, ap_vars, st_vars, re_vars, bt_vars, sy_vars>>)
    \/ \E p \in LockProcs : (LKRelease(p) /\ UNCHANGED <<te_vars, rc_vars, eb_vars, sm_vars, rl_vars, cx_vars, tc_vars, ap_vars, st_vars, re_vars, bt_vars, sy_vars>>)

(***************************************************************************)
(* RateLimiter.execute and handle_rate_limit_error                         *)
(* (src/src/exchange/rate_limiter.py, lines 152-192).  acquire is taken by *)
(* its outcomes: it returns with a token, or raises RateLimitError for a   *)
(* caller that is not CRITICAL; on its way it may use up the recorded      *)
(* Retry-After delay (lines 98-100).                                       *)
(***************************************************************************)
ExecuteMaxRetries == {1, 2, 3}

\* the Retry-After header of the exchange error: none, a number, or a value
\* float() rejects
RetryAfterHeaders == {"absent", "seconds", "malformed"}

CallOutcomes ==
    {[outcome |-> "ok", header |-> "absent"], [outcome |-> "other_error", header |-> "absent"]}
    \cup {[outcome |-> "rate_limit", header |-> h] : h \in RetryAfterHeaders}

REInit ==
    /\ re_pc = "acquire"
    /\ re_priority \in OrderPriority
    /\ re_max_retries \in ExecuteMaxRetries
    /\ re_retry_count = 0
    /\ re_retry_after_delay = NoDelay
    /\ re_trace = <<>>
    /\ re_result = "pending"

REIdle ==
    /\ re_pc = "off"
    /\ re_priority = NORMAL
    /\ re_max_retries = 1
    /\ re_retry_count = 0
    /\ re_retry_after_delay = NoDelay
    /\ re_trace = <<>>
    /\ re_result = "pending"

\* "await self.acquire(priority)"
REAcquire ==
    /\ re_pc = "acquire"
    /\ \E outcome \in {"token"} \cup (IF re_priority /= CRITICAL THEN {"RateLimitError"} ELSE {}),
          delay \in {re_retry_after_delay, NoDelay} :
        /\ re_trace' = Append(re_trace, [op |-> "acquire", outcome |-> outcome,
                                         header |-> "absent"])
        /\ re_retry_after_delay' = delay
        /\ IF outcome = "token"
           THEN re_pc' = "call" /\ UNCHANGED re_result
           ELSE re_pc' = "done" /\ re_result' = "RateLimitError"
    /\ UNCHANGED <<re_priority, re_max_retries, re_retry_count>>

\* handle_rate_limit_error: the new _retry_after_delay
handle_rate_limit_error(retry_after_delay, header) ==
    CASE header = "seconds" -> RetryAfterHint
      [] header = "malformed" -> NoDelay
      [] OTHER -> retry_after_delay

\* faulty variant: a CRITICAL caller is never given up
gives_up_unless_critical(retry_count, max_retries) ==
    re_priority /= CRITICAL /\ retry_count >= max_retries

\* "if retry_count >= self._config.max_retries: raise"
gives_up(retry_count, max_retries) == retry_count >= max_retries

\* "await coroutine_func()" and what follows it
RECall ==
    /\ re_pc = "call"
    /\ re_retry_count <= Max(re_max_retries, 1)
    /\ \E c \in CallOutcomes :
        /\ re_trace' = Append(re_trace, [op |-> "call", outcome |-> c.outcome,
                                         header |-> c.header])
        /\ CASE c.outcome = "ok" ->
                    /\ re_pc' = "done"
                    /\ re_result' = "returned"
                    /\ UNCHANGED <<re_retry_count, re_retry_after_delay>>
             [] c.outcome = "other_error" ->
                    /\ re_pc' = "done"
                    /\ re_result' = "other_error"
                    /\ UNCHANGED <<re_retry_count, re_retry_after_delay>>
             [] OTHER ->
                    /\ re_retry_count' = re_retry_count + 1
                    /\ re_retry_after_delay' =
                           handle_rate_limit_error(re_retry_after_delay, c.header)
                    /\ IF gives_up(re_retry_count + 1, re_max_retries)
                       THEN re_pc' = "done" /\ re_result' = "RateLimitExceeded"
                       ELSE re_pc' = "acquire" /\ UNCHANGED re_result
    /\ UNCHANGED <<re_priority, re_max_retries>>

RENext ==
    \/ (REAcquire /\ UNCHANGED <<te_vars, rc_vars, eb_vars, sm_vars, rl_vars, cx_vars, tc_vars, ap_vars, st_vars, lk_vars, bt_vars, sy_vars>>)
    \/ (RECall /\ UNCHANGED <<te_vars, rc_vars, eb_vars, sm_vars, rl_vars, cx_vars, tc_vars, ap_vars, st_vars, lk_vars, bt_vars, sy_vars>>)

(***************************************************************************)
(* EventBus.emit called by several tasks (src/src/core/event_bus.py,        *)
(* lines 21-23 and 32-53).  A task is suspended inside the handler it       *)
(* awaits; a step runs from the end of that handler to the next suspension. *)
(***************************************************************************)
BusTasks == {1, 2}

BusEventKinds == {"ordinary", "error"}

BusFrame(kind, left) == [kind |-> kind, left |-> left]

BusFailure(task, in_error_path, converted) ==
    [task |-> task, in_error_path |-> in_error_path, converted |-> converted]

BTInit ==
    /\ bt_handlers \in [BusEventKinds -> 0..MaxHandlers]
    /\ bt_handlers["ordinary"] > 0
    /\ bt_emitting_error = FALSE
    /\ bt_stack = [t \in BusTasks |-> <<>>]
    /\ bt_failures = <<>>
    /\ bt_nemits = [t \in BusTasks |-> 0]

BTIdle ==
    /\ bt_handlers = [k \in BusEventKinds |-> 0]
    /\ bt_emitting_error = FALSE
    /\ bt_stack = [t \in BusTasks |-> <<>>]
    /\ bt_failures = <<>>
    /\ bt_nemits = [t \in BusTasks |-> 0]

\* the handler raised while its task was inside the emit of error.recoverable
InErrorPath(stack) == \E k \in 1..Len(stack) : stack[k].kind = "error"

\* the "for handler in handlers" loop goes on after a handler is done: the
\* next handler is awaited, or emit returns; the return of the nested emit
\* of line 51 runs "finally: self._emitting_error = False" (lines 52-53)
RECURSIVE BusAdvance(_, _)
BusAdvance(stack, emitting_error) ==
    IF stack = <<>>
    THEN [stack |-> stack, emitting_error |-> emitting_error]
    ELSE LET top == stack[Len(stack)]
             rest == SubSeq(stack, 1, Len(stack) - 1)
         IN  IF top.left > 0
             THEN [stack |-> Append(rest, BusFrame(top.kind, top.left - 1)),
                   emitting_error |-> emitting_error]
             ELSE IF top.kind = "error"
                  THEN BusAdvance(rest, FALSE)
                  ELSE BusAdvance(rest, emitting_error)

\* emit(event_type, payload) of an ordinary event by a task: lines 34-38
BTEmit(t) ==
    /\ bt_stack[t] = <<>>
    /\ bt_nemits[t] < MaxEmits
    /\ bt_nemits' = [bt_nemits EXCEPT ![t] = @ + 1]
    /\ bt_stack' = [bt_stack EXCEPT
                       ![t] = <<BusFrame("ordinary", bt_handlers["ordinary"] - 1)>>]
    /\ UNCHANGED <<bt_handlers, bt_emitting_error, bt_failures>>

\* "await handler(payload)" returns: line 38
BTHandlerReturn(t) ==
    /\ bt_stack[t] /= <<>>
    /\ LET next == BusAdvance(bt_stack[t], bt_emitting_error)
       IN  /\ bt_stack' = [bt_stack EXCEPT ![t] = next.stack]
           /\ bt_emitting_error' = next.emitting_error
    /\ UNCHANGED <<bt_handlers, bt_failures, bt_nemits>>

\* the flag read at line 41
suppressed(emitting_error) == emitting_error

\* "await handler(payload)" raises: lines 39-53
BTHandlerRaise(t) ==
    /\ bt_stack[t] /= <<>>
    /\ Len(bt_failures) < MaxRaises
    /\ IF suppressed(bt_emitting_error)
       THEN LET next == BusAdvance(bt_stack[t], bt_emitting_error)
            IN  /\ bt_stack' = [bt_stack EXCEPT ![t] = next.stack]
                /\ bt_emitting_error' = next.emitting_error
                /\ bt_failures' = Append(bt_failures,
                       BusFailure(t, InErrorPath(bt_stack[t]), FALSE))
       ELSE /\ bt_failures' = Append(bt_failures,
                   BusFailure(t, InErrorPath(bt_stack[t]), TRUE))
            /\ IF bt_handlers["error"] = 0
               THEN LET next == BusAdvance(bt_stack[t], FALSE)
                    IN  /\ bt_stack' = [bt_stack EXCEPT ![t] = next.stack]
                        /\ bt_emitting_error' = next.emitting_error
               ELSE /\ bt_stack' = [bt_stack EXCEPT ![t] =
                           Append(@, BusFrame("error", bt_handlers["error"] - 1))]
                    /\ bt_emitting_error' = TRUE
    /\ UNCHANGED <<bt_handlers, bt_nemits>>

BTNext ==
    \/ (\E t \in BusTasks : BTEmit(t) /\ UNCHANGED <<te_vars, rc_vars, eb_vars, sm_vars, rl_vars, cx_vars, tc_vars, ap_vars, st_vars, lk_vars, re_vars, sy_vars>>)
    \/ (\E t \in BusTasks : BTHandlerReturn(t) /\ UNCHANGED <<te_vars, rc_vars, eb_vars, sm_vars, rl_vars, cx_vars, tc_vars, ap_vars, st_vars, lk_vars, re_vars, sy_vars>>)
    \/ (\E t \in BusTasks : BTHandlerRaise(t) /\ UNCHANGED <<te_vars, rc_vars, eb_vars, sm_vars, rl_vars, cx_vars, tc_vars, ap_vars, st_vars, lk_vars, re_vars, sy_vars>>)

(***************************************************************************)
(* A strategy and its StateMachine: BaseStrategy.on_candle                  *)
(* (src/src/strategies/base.py, lines 66-98), ExampleStrategy               *)
(* (src/src/strategies/example_strategy.py, lines 17-47), the transitions   *)
(* of src/src/core/state_machine.py and the signal handlers of              *)
(* src/src/trading/trade_executor.py, lines 48-110.                         *)
(***************************************************************************)
MaxIgnored == 3

\* self._last_condition_candle == 0
NoGap == -1

\* max_gap_candles is None
NoMaxGap == 0

\* what the handler of the signal did: the signal carries no prices and is
\* dropped, or execute_atomic_trade emitted trade.opened or trade.failed
SignalOutcomes == {"ignored", "opened", "failed"}

SYInit ==
    /\ sy_config \in [conditions : 1..MaxConditions, timeout_candles : 1..MaxCandle,
                      max_gap_candles : (1..MaxCandle) \cup {NoMaxGap}]
    /\ sy_state = "IDLE"
    /\ sy_conditions_met = <<>>
    /\ sy_gap = NoGap
    /\ sy_trade = NoneVal
    /\ sy_ignored = 0

SYIdle ==
    /\ sy_config = [conditions |-> 1, timeout_candles |-> 1, max_gap_candles |-> NoMaxGap]
    /\ sy_state = "IDLE"
    /\ sy_conditions_met = <<>>
    /\ sy_gap = NoGap
    /\ sy_trade = NoneVal
    /\ sy_ignored = 0

\* _get_max_gap, base.py lines 80-90, the conditions sharing one setting
get_max_gap(config) ==
    IF config.max_gap_candles /= NoMaxGap
    THEN config.max_gap_candles
    ELSE config.timeout_candles

\* the gap after one more candle; it matters only up to the maximum gap + 1
next_gap(gap, max_gap) ==
    IF gap = NoGap THEN NoGap
    ELSE IF gap > max_gap THEN gap
    ELSE gap + 1

\* _is_gap_exceeded, base.py lines 92-98
is_gap_exceeded(gap, max_gap) ==
    IF gap = NoGap THEN FALSE ELSE gap > max_gap

\* on_candle: a candle.closed event is handled.  The handler runs to its end,
\* the signal it emits and the trade attempt of its handler included.
SYOnCandle ==
    \E satisfied \in BOOLEAN, outcome \in SignalOutcomes :
        LET gap == next_gap(sy_gap, get_max_gap(sy_config))
            conditions_met_count == Len(sy_conditions_met)
        IN  IF sy_state \in {"IN_TRADE", "SIGNAL_READY"}
            THEN /\ sy_ignored' = IF sy_ignored < MaxIgnored
                                  THEN sy_ignored + 1 ELSE sy_ignored
                 /\ sy_gap' = gap
                 /\ UNCHANGED <<sy_config, sy_state, sy_conditions_met, sy_trade>>
            ELSE IF conditions_met_count > 0
                    /\ is_gap_exceeded(gap, get_max_gap(sy_config))
            THEN \* on_timeout, then self._last_condition_candle = 0
                 /\ IF validate_transition(sy_state, {"WATCHING"})
                    THEN sy_state' = "IDLE" /\ sy_conditions_met' = <<>> /\ sy_gap' = NoGap
                    ELSE UNCHANGED <<sy_state, sy_conditions_met>> /\ sy_gap' = gap
                 /\ UNCHANGED <<sy_config, sy_trade, sy_ignored>>
            ELSE IF conditions_met_count >= sy_config.conditions \/ ~satisfied
            THEN /\ sy_gap' = gap
                 /\ UNCHANGED <<sy_config, sy_state, sy_conditions_met, sy_trade, sy_ignored>>
            ELSE \* on_condition_met(conditions_met_count, self._candle_count)
                 /\ sy_conditions_met' = Append(sy_conditions_met, conditions_met_count)
                 /\ sy_gap' = 0
                 /\ IF conditions_met_count + 1 = sy_config.conditions
                    THEN \* on_all_conditions_met(self.get_signal())
                         /\ sy_state' = "SIGNAL_READY"
                         /\ sy_trade' = outcome
                         /\ sy_ignored' = 0
                    ELSE /\ sy_state' = "WATCHING"
                         /\ UNCHANGED <<sy_trade, sy_ignored>>
                 /\ UNCHANGED sy_config

\* on_trade_opened, called for the trade that trade.opened announced
SYOnTradeOpened ==
    /\ sy_trade = "opened"
    /\ validate_transition(sy_state, {"SIGNAL_READY"})
    /\ sy_state' = "IN_TRADE"
    /\ UNCHANGED <<sy_config, sy_conditions_met, sy_gap, sy_trade, sy_ignored>>

\* on_trade_closed
SYOnTradeClosed ==
    /\ validate_transition(sy_state, {"IN_TRADE"})
    /\ sy_state' = "IDLE"
    /\ sy_conditions_met' = <<>>
    /\ sy_trade' = NoneVal
    /\ sy_ignored' = 0
    /\ UNCHANGED <<sy_config, sy_gap>>

SYNext ==
    \/ (SYOnCandle /\ UNCHANGED <<te_vars, rc_vars, eb_vars, sm_vars, rl_vars, cx_vars, tc_vars, ap_vars, st_vars, lk_vars, re_vars, bt_vars>>)
    \/ (SYOnTradeOpened /\ UNCHANGED <<te_vars, rc_vars, eb_vars, sm_vars, rl_vars, cx_vars, tc_vars, ap_vars, st_vars, lk_vars, re_vars, bt_vars>>)
    \/ (SYOnTradeClosed /\ UNCHANGED <<te_vars, rc_vars, eb_vars, sm_vars, rl_vars, cx_vars, tc_vars, ap_vars, st_vars, lk_vars, re_vars, bt_vars>>)

(***************************************************************************)
(* Specifications                                                          *)
(***************************************************************************)
InitRecovery == RCInit /\ TEIdle /\ EBIdle /\ SMIdle /\ RLIdle /\ CXIdle /\ TCIdle /\ APIdle /\ STIdle /\ LKIdle /\ REIdle /\ BTIdle /\ SYIdle

SpecRecovery == InitRecovery /\ [][RCNext]_vars

InitTrade == TEInit /\ RCIdle /\ EBIdle /\ SMIdle /\ RLIdle /\ CXIdle /\ TCIdle /\ APIdle /\ STIdle /\ LKIdle /\ REIdle /\ BTIdle /\ SYIdle

SpecTrade == InitTrade /\ [][TENext]_vars

SpecTradeCancel == InitTrade /\ [][TECancelNext]_vars

InitBus == EBInit /\ TEIdle /\ RCIdle /\ SMIdle /\ RLIdle /\ CXIdle /\ TCIdle /\ APIdle /\ STIdle /\ LKIdle /\ REIdle /\ BTIdle /\ SYIdle

SpecBus == InitBus /\ [][EBNext]_vars

InitFSM == SMInit /\ TEIdle /\ RCIdle /\ EBIdle /\ RLIdle /\ CXIdle /\ TCIdle /\ APIdle /\ STIdle /\ LKIdle /\ REIdle /\ BTIdle /\ SYIdle

SpecFSM == InitFSM /\ [][SMNext]_vars

InitLimiter == RLInit /\ TEIdle /\ RCIdle /\ EBIdle /\ SMIdle /\ CXIdle /\ TCIdle /\ APIdle /\ STIdle /\ LKIdle /\ REIdle /\ BTIdle /\ SYIdle

SpecLimiter == InitLimiter /\ [][RLNext]_vars

\* the event loop resumes every sleep that has elapsed, and time passes
LimiterFairness ==
    /\ WF_vars(RLTick /\ UNCHANGED <<te_vars, rc_vars, eb_vars, sm_vars, cx_vars, tc_vars, ap_vars, st_vars, lk_vars, re_vars, bt_vars, sy_vars>>)
    /\ \A t \in RLTaskIds :
          WF_vars(RLWakeTask(t) /\ UNCHANGED <<te_vars, rc_vars, eb_vars, sm_vars, cx_vars, tc_vars, ap_vars, st_vars, lk_vars, re_vars, bt_vars, sy_vars>>)

\* as RLInit, the clock reading and the count of admissions being left out
\* (both start at the value where they stop)
RLInitUnmeasured ==
    /\ rl_cfg \in RateLimitConfig
    /\ rl_tokens = rl_cfg.burst_size * TokenUnit
    /\ rl_elapsed = 0
    /\ rl_initialized = FALSE
    /\ rl_waiters = <<>>
    /\ rl_retry_after = NoDelay
    /\ rl_tasks = [t \in RLTaskIds |-> IdleTask]
    /\ rl_now = MaxTime
    /\ rl_admitted = MaxAdmitted
    /\ rl_ncancels = 0
    /\ rl_last = NoStep

InitLimiterLive == RLInitUnmeasured /\ TEIdle /\ RCIdle /\ EBIdle /\ SMIdle /\ CXIdle /\ TCIdle /\ APIdle /\ STIdle /\ LKIdle /\ REIdle /\ BTIdle /\ SYIdle

SpecLimiterLive == InitLimiterLive /\ [][RLNext]_vars /\ LimiterFairness

InitConnector == CXInit /\ TEIdle /\ RCIdle /\ EBIdle /\ SMIdle /\ RLIdle /\ TCIdle /\ APIdle /\ STIdle /\ LKIdle /\ REIdle /\ BTIdle /\ SYIdle

SpecConnector == InitConnector /\ [][CXNext]_vars

InitClose == TCInit /\ TEIdle /\ RCIdle /\ EBIdle /\ SMIdle /\ RLIdle /\ CXIdle /\ APIdle /\ STIdle /\ LKIdle /\ REIdle /\ BTIdle /\ SYIdle

SpecClose == InitClose /\ [][TCNext]_vars

InitShutdown == APInit /\ TEIdle /\ RCIdle /\ EBIdle /\ SMIdle /\ RLIdle /\ CXIdle /\ TCIdle /\ STIdle /\ LKIdle /\ REIdle /\ BTIdle /\ SYIdle

SpecShutdown == InitShutdown /\ [][APNext]_vars

\* the event loop keeps running run_live and the tasks it cancelled; a stop
\* request and a failure of the watcher come from outside and may never come
ShutdownFairness ==
    /\ WF_vars(APLeaveLoop /\ UNCHANGED <<te_vars, rc_vars, eb_vars, sm_vars, rl_vars, cx_vars, tc_vars, st_vars, lk_vars, re_vars, bt_vars, sy_vars>>)
    /\ WF_vars(APTaskCancelled /\ UNCHANGED <<te_vars, rc_vars, eb_vars, sm_vars, rl_vars, cx_vars, tc_vars, st_vars, lk_vars, re_vars, bt_vars, sy_vars>>)
    /\ WF_vars(APAwaitCandle /\ UNCHANGED <<te_vars, rc_vars, eb_vars, sm_vars, rl_vars, cx_vars, tc_vars, st_vars, lk_vars, re_vars, bt_vars, sy_vars>>)
    /\ WF_vars(APAwaitBackup /\ UNCHANGED <<te_vars, rc_vars, eb_vars, sm_vars, rl_vars, cx_vars, tc_vars, st_vars, lk_vars, re_vars, bt_vars, sy_vars>>)
    /\ WF_vars(APAudit /\ UNCHANGED <<te_vars, rc_vars, eb_vars, sm_vars, rl_vars, cx_vars, tc_vars, st_vars, lk_vars, re_vars, bt_vars, sy_vars>>)
    /\ WF_vars(APAuditFetch /\ UNCHANGED <<te_vars, rc_vars, eb_vars, sm_vars, rl_vars, cx_vars, tc_vars, st_vars, lk_vars, re_vars, bt_vars, sy_vars>>)
    /\ WF_vars(APDisconnect /\ UNCHANGED <<te_vars, rc_vars, eb_vars, sm_vars, rl_vars, cx_vars, tc_vars, st_vars, lk_vars, re_vars, bt_vars, sy_vars>>)
    /\ WF_vars(APDisconnectClose /\ UNCHANGED <<te_vars, rc_vars, eb_vars, sm_vars, rl_vars, cx_vars, tc_vars, st_vars, lk_vars, re_vars, bt_vars, sy_vars>>)
    /\ WF_vars(APReleaseAndUnlink /\ UNCHANGED <<te_vars, rc_vars, eb_vars, sm_vars, rl_vars, cx_vars, tc_vars, st_vars, lk_vars, re_vars, bt_vars, sy_vars>>)
    /\ WF_vars(APEmitStopped /\ UNCHANGED <<te_vars, rc_vars, eb_vars, sm_vars, rl_vars, cx_vars, tc_vars, st_vars, lk_vars, re_vars, bt_vars, sy_vars>>)

SpecShutdownLive == InitShutdown /\ [][APNext]_vars /\ ShutdownFairness

InitRunLive == APInitLocked /\ TEIdle /\ RCIdle /\ EBIdle /\ SMIdle /\ RLIdle /\ CXIdle /\ TCIdle /\ STIdle /\ LKIdle /\ REIdle /\ BTIdle /\ SYIdle

SpecRunLive == InitRunLive /\ [][APRunLiveNext]_vars

InitState == STInit /\ TEIdle /\ RCIdle /\ EBIdle /\ SMIdle /\ RLIdle /\ CXIdle /\ TCIdle /\ APIdle /\ LKIdle /\ REIdle /\ BTIdle /\ SYIdle

SpecState == InitState /\ [][STNext]_vars

InitLock == LKInit /\ TEIdle /\ RCIdle /\ EBIdle /\ SMIdle /\ RLIdle /\ CXIdle /\ TCIdle /\ APIdle /\ STIdle /\ REIdle /\ BTIdle /\ SYIdle

SpecLock == InitLock /\ [][LKNext]_vars

InitExecute == REInit /\ TEIdle /\ RCIdle /\ EBIdle /\ SMIdle /\ RLIdle /\ CXIdle /\ TCIdle /\ APIdle /\ STIdle /\ LKIdle /\ BTIdle /\ SYIdle

SpecExecute == InitExecute /\ [][RENext]_vars

InitBusTasks == BTInit /\ TEIdle /\ RCIdle /\ EBIdle /\ SMIdle /\ RLIdle /\ CXIdle /\ TCIdle /\ APIdle /\ STIdle /\ LKIdle /\ REIdle /\ SYIdle

SpecBusTasks == InitBusTasks /\ [][BTNext]_vars

InitStrategy == SYInit /\ TEIdle /\ RCIdle /\ EBIdle /\ SMIdle /\ RLIdle /\ CXIdle /\ TCIdle /\ APIdle /\ STIdle /\ LKIdle /\ REIdle /\ BTIdle

\* candles keep being delivered, and the calls that follow a trade are made
StrategyFairness ==
    /\ WF_vars(SYOnCandle /\ UNCHANGED <<te_vars, rc_vars, eb_vars, sm_vars, rl_vars, cx_vars, tc_vars, ap_vars, st_vars, lk_vars, re_vars, bt_vars>>)
    /\ WF_vars(SYOnTradeOpened /\ UNCHANGED <<te_vars, rc_vars, eb_vars, sm_vars, rl_vars, cx_vars, tc_vars, ap_vars, st_vars, lk_vars, re_vars, bt_vars>>)
    /\ WF_vars(SYOnTradeClosed /\ UNCHANGED <<te_vars, rc_vars, eb_vars, sm_vars, rl_vars, cx_vars, tc_vars, ap_vars, st_vars, lk_vars, re_vars, bt_vars>>)

SpecStrategyLive == InitStrategy /\ [][SYNext]_vars /\ StrategyFairness

(***************************************************************************)
(* Properties of execute_atomic_trade                                      *)
(***************************************************************************)
IsEntryCall(c) == c.op = "place_order" /\ c.type = "MARKET"
                  /\ c.side = entry_side(te_in.direction)

IsCloseCall(c) == c.op = "place_order" /\ c.type = "MARKET"
                  /\ c.side = close_side(te_in.direction)

IsConfirmedSL(c) == c.op = "place_order" /\ c.type = "STOP_LOSS"
                    /\ c.side = close_side(te_in.direction)
                    /\ c.outcome \notin {"raise", "FAILED", "CANCELLED"}

CloseSubmitted == \E i \in 1..Len(te_calls) : IsCloseCall(te_calls[i])

CriticalEmitted == \E i \in 1..Len(te_events) : te_events[i] = "error.critical"

RolledBack == te_result = "None" /\ (CloseSubmitted \/ CriticalEmitted)

\* C1 as stated: whatever fails after the entry order was placed (the
\* take-profit order included), the call returns None and a closing order was
\* submitted or error.critical was emitted.
C1_AnyLaterFailureRollsBack ==
    (te_pc = "done" /\ te_fail /= "none") => RolledBack

\* C1 amended: a failure between the entry order and the confirmation of the
\* stop-loss (price recomputation raising, stop-loss raising or returned
\* FAILED/CANCELLED) makes the call return None with a closing order submitted
\* or error.critical emitted; a failure of the take-profit order instead
\* leaves the trade open and the TradeRecord is returned.
C1_FailureBeforeSLConfirmedRollsBack ==
    te_pc = "done" =>
        /\ te_fail \in {"calc", "sl_raise", "sl_status"} => RolledBack
        /\ te_fail = "tp_raise" => te_result = "record" /\ ~CloseSubmitted

C1_Witness ==
    /\ te_pc = "done"
    /\ te_fail \in {"sl_raise", "sl_status"}
    /\ te_result = "None"
    /\ CloseSubmitted

\* C2: a TradeRecord is returned only after set_leverage, then an entry order
\* returned with a status other than FAILED, then an opposite-side STOP_LOSS
\* returned with a status other than FAILED/CANCELLED; no TAKE_PROFIT order is
\* ever placed before that stop-loss confirmation.
C2_RecordOnlyAfterLeverageEntryStop ==
    /\ te_result = "record" =>
         \E i, j, k \in 1..Len(te_calls) :
            /\ i < j /\ j < k
            /\ te_calls[i].op = "set_leverage" /\ te_calls[i].outcome = "ok"
            /\ IsEntryCall(te_calls[j])
            /\ te_calls[j].outcome \notin {"raise", "FAILED"}
            /\ IsConfirmedSL(te_calls[k])
    /\ \A m \in 1..Len(te_calls) :
         te_calls[m].type = "TAKE_PROFIT" =>
            \E k \in 1..(m - 1) : IsConfirmedSL(te_calls[k])

C2_Witness ==
    /\ te_result = "record"
    /\ \E m \in 1..Len(te_calls) : te_calls[m].type = "TAKE_PROFIT"

\* C3: whenever execute_atomic_trade returns None, no position opened by the
\* call remains open on the exchange.
C3_NoneMeansNoOpenPosition ==
    te_result = "None" => ~ex_pos

(***************************************************************************)
(* Properties of run_crash_recovery                                        *)
(***************************************************************************)
\* a stop order as the post-reconnect audit recognises it
\* (ccxt_connector.py 494-498)
IsStopOrder(o) == Lower(o.type) \in {"stop_market", "stop", "stop_loss"} \/ o.stopPrice

StopSide(p) == IF p.side = "long" THEN "sell" ELSE "buy"

\* the exchange holds an open position covered by a live opposite-side stop
ProtectedPositionOnExchange ==
    \E i \in 1..Len(rx_positions) :
        /\ rx_positions[i].contracts > 0
        /\ \E j \in 1..Len(rx_orders) :
              IsStopOrder(rx_orders[j]) /\ rx_orders[j].side = StopSide(rx_positions[i])

RecoveredNormally == rc_result = "state" /\ rc_via = "normal"

FetchedOpenPosition == \E i \in 1..Len(rc_positions) : rc_positions[i].contracts > 0

FetchedProtection == \E j \in 1..Len(rc_orders) : is_protection_order(rc_orders[j])

RecoveryOrders == {i \in 1..Len(rc_calls) : rc_calls[i].op = "place_order"}

NumCalls(op) == Cardinality({i \in 1..Len(rc_calls) : rc_calls[i].op = op})

\* C4: every trade id still listed when run_crash_recovery returns a state
\* belongs to an open exchange position that has a live stop order on the
\* opposite side.  Stated for the return on normal completion, where the code
\* departs from the invariant; the return after a timeout leaves the ids not
\* yet examined in the list as well.
C4_KeptIdsHaveOppositeStop ==
    (RecoveredNormally /\ Len(rc_state) > 0) => ProtectedPositionOnExchange

\* C5: N >= 1 persisted ids sharing one unprotected position: exactly one
\* market close order is placed and every id is removed from the returned and
\* the persisted state; in no state has more than one order been placed.
C5_SharedPositionClosedOnce ==
    /\ Cardinality(RecoveryOrders) <= 1
    /\ (RecoveredNormally /\ FetchedOpenPosition /\ ~FetchedProtection) =>
          /\ Cardinality(RecoveryOrders) = 1
          /\ \A i \in RecoveryOrders : rc_calls[i].type = "MARKET"
          /\ rc_state = <<>>
          /\ rc_saved = StateFile("ok", <<>>)

C5_Witness ==
    /\ RecoveredNormally
    /\ Len(rc_ids) = MaxTrades
    /\ FetchedOpenPosition /\ ~FetchedProtection
    /\ Cardinality(RecoveryOrders) = 1

LogPos == 1..Len(eb_log)

BusFrames == {eb_log[k].f : k \in {j \in LogPos : eb_log[j].ev = "emit"}}

EmitPos(f) == CHOOSE k \in LogPos : eb_log[k].ev = "emit" /\ eb_log[k].f = f

Returned(f) == \E k \in LogPos : eb_log[k].ev = "ret" /\ eb_log[k].f = f

RetPos(f) == CHOOSE k \in LogPos : eb_log[k].ev = "ret" /\ eb_log[k].f = f

\* handlers registered for the type of f when emit was called
RegOf(f) == eb_log[EmitPos(f)].reg

\* handlers invoked by f, in order of invocation
CallsOf(f) ==
    LET cs == SelectSeq(eb_log, LAMBDA e : e.ev = "call" /\ e.f = f)
    IN [k \in 1..Len(cs) |-> cs[k].h]

IsEnd(k, f) == eb_log[k].ev \in {"ok", "raise"} /\ eb_log[k].f = f

\* position k lies inside the dispatch of a synthetic error.recoverable
InErrorDispatchAt(k) ==
    \E j \in 1..(k - 1) :
        /\ eb_log[j].ev = "emit" /\ eb_log[j].src = "except"
        /\ ~\E m \in (j + 1)..(k - 1) : eb_log[m].ev = "ret" /\ eb_log[m].f = eb_log[j].f

FollowedByErrorEvent(k) ==
    /\ k < Len(eb_log)
    /\ eb_log[k + 1].ev = "emit"
    /\ eb_log[k + 1].type = ERROR_RECOVERABLE

NumErrorEvents ==
    Cardinality({k \in LogPos : eb_log[k].ev = "emit" /\ eb_log[k].type = ERROR_RECOVERABLE})

NumReportableRaises ==
    Cardinality({k \in LogPos : eb_log[k].ev = "raise" /\ ~InErrorDispatchAt(k)})

\* C7: every handler exception outside the error-handling path becomes
\* exactly one error.recoverable event published on the same bus, the
\* remaining handlers of the event are still invoked, and every emit returns
\* normally to its caller.
C7_HandlerExceptionBecomesOneErrorEvent ==
    /\ \A k \in LogPos :
          (eb_log[k].ev = "raise" /\ ~InErrorDispatchAt(k)) => FollowedByErrorEvent(k)
    /\ NumErrorEvents = NumReportableRaises
    /\ \A f \in BusFrames :
          /\ Returned(f) => Len(CallsOf(f)) = Len(RegOf(f))
          /\ ~Returned(f) => \E d \in 1..Len(eb_stack) : eb_stack[d].id = f
    /\ (eb_stack = <<>> /\ eb_log /= <<>>) =>
          (Last(eb_log).ev = "ret" /\ Last(eb_log).src = "publisher")

\* a handler of candle.closed publishes trade.opened, whose handler throws:
\* one error.recoverable, and the second handler of candle.closed still ran
C7_Witness ==
    /\ eb_stack = <<>>
    /\ NumErrorEvents = 1
    /\ \E fx, fy \in BusFrames :
          /\ eb_log[EmitPos(fx)].src = "publisher"
          /\ eb_log[EmitPos(fy)].src = "handler"
          /\ Len(CallsOf(fx)) = 2
          /\ \E k \in LogPos :
                /\ eb_log[k].ev = "raise" /\ eb_log[k].f = fy
                /\ \E c \in (k + 1)..Len(eb_log) :
                      eb_log[c].ev = "call" /\ eb_log[c].f = fx

\* C8: emit invokes exactly the handlers registered for the type, once each
\* and in registration order, none of another type, one at a time, and
\* returns only when all of them and every event they published are handled.
C8_DispatchInOrderDepthFirst ==
    \A f \in BusFrames :
        /\ Len(CallsOf(f)) <= Len(RegOf(f))
        /\ \A k \in 1..Len(CallsOf(f)) :
              CallsOf(f)[k] = RegOf(f)[k] /\ CallsOf(f)[k].t = eb_log[EmitPos(f)].type
        /\ \A p, q \in LogPos :
              (p < q /\ eb_log[p].ev = "call" /\ eb_log[p].f = f
                     /\ eb_log[q].ev = "call" /\ eb_log[q].f = f)
              => \E e \in (p + 1)..(q - 1) : IsEnd(e, f)
        /\ \A p, e \in LogPos :
              (p < e /\ eb_log[p].ev = "call" /\ eb_log[p].f = f /\ IsEnd(e, f)
                     /\ ~\E m \in (p + 1)..(e - 1) : IsEnd(m, f))
              => \A g \in BusFrames :
                    (p < EmitPos(g) /\ EmitPos(g) < e) => (Returned(g) /\ RetPos(g) < e)
        /\ Returned(f) =>
              /\ CallsOf(f) = RegOf(f)
              /\ Cardinality({e \in LogPos : IsEnd(e, f)}) = Len(RegOf(f))
              /\ \A e \in LogPos : IsEnd(e, f) => e < RetPos(f)
              /\ \A g \in BusFrames :
                    (EmitPos(f) < EmitPos(g) /\ EmitPos(g) < RetPos(f))
                    => (Returned(g) /\ RetPos(g) < RetPos(f))

C8_Witness ==
    /\ eb_stack = <<>>
    /\ \E f, g \in BusFrames :
          /\ Returned(f) /\ Len(RegOf(f)) = 2
          /\ eb_log[EmitPos(g)].src = "handler" /\ Len(RegOf(g)) >= 1
          /\ EmitPos(f) < EmitPos(g) /\ RetPos(g) < RetPos(f)
          /\ \E c \in LogPos : c > RetPos(g) /\ eb_log[c].ev = "call" /\ eb_log[c].f = f

\* C9: an exception of a handler invoked during the dispatch of an
\* error.recoverable event is swallowed - no further error.recoverable, at
\* most one error dispatch at a time - the remaining handlers still run, and
\* the flag is set exactly during an error dispatch, hence false once the
\* outermost emit has returned, so that a later failure is reported again.
C9_ErrorPathFailureSwallowedOnce ==
    /\ \A k \in LogPos :
          (eb_log[k].ev = "raise" /\ InErrorDispatchAt(k)) => ~FollowedByErrorEvent(k)
    /\ Cardinality({d \in 1..Len(eb_stack) : eb_stack[d].src = "except"}) <= 1
    /\ \A f \in BusFrames :
          (eb_log[EmitPos(f)].type = ERROR_RECOVERABLE /\ Returned(f))
          => CallsOf(f) = RegOf(f)
    /\ eb_emitting_error <=> (\E d \in 1..Len(eb_stack) : eb_stack[d].src = "except")
    /\ eb_stack = <<>> => ~eb_emitting_error
    /\ \A k \in LogPos :
          (eb_log[k].ev = "raise" /\ ~InErrorDispatchAt(k)
             /\ \E j \in 1..(k - 1) : eb_log[j].ev = "raise" /\ InErrorDispatchAt(j))
          => FollowedByErrorEvent(k)

C9_Witness ==
    \E j, r, k \in LogPos :
        /\ j < r /\ r < k
        /\ eb_log[j].ev = "raise" /\ InErrorDispatchAt(j)
        /\ eb_log[r].ev = "ret" /\ eb_log[r].src = "publisher"
        /\ eb_log[k].ev = "raise" /\ ~InErrorDispatchAt(k) /\ FollowedByErrorEvent(k)
        /\ \E c \in (j + 1)..(r - 1) : eb_log[c].ev = "call" /\ eb_log[c].f = eb_log[j].f

(***************************************************************************)
(* Properties of the StateMachine                                          *)
(***************************************************************************)
SMUntouched == SMFields = sm_last.before /\ sm_emitted = <<>>

StateDisallowed(op, state) ==
    \/ op = "on_condition_met" /\ state \notin {"IDLE", "WATCHING"}
    \/ op = "on_all_conditions_met" /\ state /= "WATCHING"
    \/ op = "on_trade_opened" /\ state /= "SIGNAL_READY"
    \/ op = "on_trade_closed" /\ state /= "IN_TRADE"
    \/ op = "on_timeout" /\ state /= "WATCHING"

TableStep(t, c) ==
    CASE c.op = "on_condition_met" /\ t.state \in {"IDLE", "WATCHING"} ->
            [t EXCEPT !.state = "WATCHING",
                      !.conditions = IF \E k \in 1..Len(@) : @[k] = c.index
                                     THEN @ ELSE Append(@, c.index)]
      [] c.op = "on_all_conditions_met" /\ t.state = "WATCHING"
            /\ c.direction \in {"long", "short"} ->
            [t EXCEPT !.state = "SIGNAL_READY"]
      [] c.op = "on_trade_opened" /\ t.state = "SIGNAL_READY" ->
            [t EXCEPT !.state = "IN_TRADE", !.trade_id = c.trade_id]
      [] c.op = "on_trade_closed" /\ t.state = "IN_TRADE" ->
            [state |-> "IDLE", conditions |-> <<>>, trade_id |-> NoneVal]
      [] c.op = "on_timeout" /\ t.state = "WATCHING" ->
            [state |-> "IDLE", conditions |-> <<>>, trade_id |-> NoneVal]
      [] OTHER -> [t EXCEPT !.state = "REJECTED"]

RECURSIVE Replay(_)
Replay(calls) ==
    IF calls = <<>>
    THEN [state |-> "IDLE", conditions |-> <<>>, trade_id |-> NoneVal]
    ELSE TableStep(Replay(SubSeq(calls, 1, Len(calls) - 1)), calls[Len(calls)])

\* C11: after any sequence of calls each of which the transition table
\* allows, state, conditions list and current trade id are those obtained by
\* replaying the table from IDLE.
C11_StateEqualsTableReplay ==
    LET t == Replay(sm_trace)
    IN t.state /= "REJECTED" =>
          /\ sm_state = t.state
          /\ sm_conditions_met = t.conditions
          /\ sm_current_trade_id = t.trade_id

\* a full cycle followed by a new condition: both resets have been replayed
C11_Witness ==
    /\ Len(sm_trace) = MaxCalls
    /\ Replay(sm_trace).state = "WATCHING"
    /\ \E k \in 1..Len(sm_trace) : sm_trace[k].op = "on_trade_closed"
    /\ sm_conditions_met /= <<>>

(***************************************************************************)
(* Properties of the RateLimiter                                           *)
(***************************************************************************)
\* position of the entry of a task in a queue, 0 if it has none
PosOf(queue, task) ==
    IF \E k \in 1..Len(queue) : queue[k].task = task
    THEN CHOOSE k \in 1..Len(queue) : queue[k].task = task
    ELSE 0

Queued(task) == PosOf(rl_waiters, task) /= 0

\* the entry at position k is served before the entry at position j
ServedBefore(queue, k, j) ==
    \/ queue[k].prio < queue[j].prio
    \/ (queue[k].prio = queue[j].prio /\ k <= j)

\* C12: a token goes to the queued caller that is first in (priority,
\* arrival) order - CRITICAL before HIGH before NORMAL, first come first
\* served within a priority - and the fast path is taken only when nobody
\* is queued.
C12_GrantsInPriorityThenArrivalOrder ==
    /\ rl_last.fast => rl_last.queue = <<>>
    /\ \A n \in 1..Len(rl_last.grants) :
          LET g == rl_last.grants[n]
              k == PosOf(g.queue, g.task)
          IN /\ k /= 0
             /\ \A j \in 1..Len(g.queue) : ServedBefore(g.queue, k, j)

\* a CRITICAL caller queued behind a NORMAL one receives the only token
C12_Witness ==
    /\ Len(rl_last.grants) = 1
    /\ rl_last.grants[1].prio = CRITICAL
    /\ \E j \in 1..Len(rl_last.queue) :
          /\ rl_last.queue[j].prio = NORMAL
          /\ j < PosOf(rl_last.queue, rl_last.grants[1].task)
          /\ Queued(rl_last.queue[j].task)

\* C13: only NORMAL and HIGH callers give up, exactly at the max_retries-th
\* wake-up without a token, and they leave the queue; a CRITICAL caller never
\* fails and stays queued until it is granted a token.
C13_OnlyNonCriticalAbandons ==
    /\ rl_last.outcome = "failed" =>
          /\ rl_last.prio /= CRITICAL
          /\ rl_last.retry_count = rl_cfg.max_retries
          /\ ~Queued(rl_last.task)
    /\ \A t \in RLTaskIds :
          rl_tasks[t].status = "sleeping" =>
             /\ rl_tasks[t].prio /= CRITICAL => rl_tasks[t].retry_count < rl_cfg.max_retries
             /\ (rl_tasks[t].prio = CRITICAL /\ ~rl_tasks[t].done) => Queued(t)
             /\ ~rl_tasks[t].done => Queued(t)

\* a NORMAL caller gives up while a CRITICAL one, past max_retries, goes on
C13_Witness ==
    /\ rl_last.outcome = "failed"
    /\ rl_last.prio = NORMAL
    /\ \E t \in RLTaskIds :
          /\ rl_tasks[t].status = "sleeping"
          /\ rl_tasks[t].prio = CRITICAL
          /\ rl_tasks[t].retry_count >= rl_cfg.max_retries
          /\ Queued(t)

CeilDiv(a, b) == (a + b - 1) \div b

\* C15 as stated: the N-th admitted acquire happens no earlier than
\* ceil((N - B) / R) seconds after the start.
C15_NthAdmittedAfterCeilSeconds ==
    (rl_now < MaxTime /\ rl_admitted < MaxAdmitted /\ rl_admitted > rl_cfg.burst_size)
    => rl_now >= TicksPerSecond * CeilDiv(rl_admitted - rl_cfg.burst_size, rl_cfg.rate)

\* C15 amended: at most B + R*t acquires are admitted within the first t
\* seconds, t not being rounded: the N-th one happens no earlier than
\* (N - B) / R seconds after the start.
C15_AdmittedAtMostBurstPlusRateTimesT ==
    (rl_now < MaxTime /\ rl_admitted < MaxAdmitted)
    => rl_admitted * TicksPerSecond <= rl_cfg.burst_size * TicksPerSecond + rl_cfg.rate * rl_now

\* the bound is reached: B + 1 admitted after half a second at R = 2
C15_Witness ==
    /\ rl_cfg.rate = 2
    /\ rl_now = 1
    /\ rl_admitted = rl_cfg.burst_size + 1
    /\ rl_last.outcome = "returned"
    /\ Len(rl_last.grants) = 1

\* C16: 0 <= tokens <= burst_size in every state, and every admission - fast
\* path or dispatch to a waiter - takes exactly one token from a bucket
\* holding at least one.
C16_TokensWithinBurstOnePerAdmission ==
    /\ rl_tokens >= 0
    /\ rl_tokens <= rl_cfg.burst_size * TokenUnit
    /\ rl_last.fast =>
          (rl_last.tokens_before >= TokenUnit /\ rl_tokens = rl_last.tokens_before - TokenUnit)
    /\ \A n \in 1..Len(rl_last.grants) :
          LET g == rl_last.grants[n]
          IN /\ g.tokens_before >= TokenUnit
             /\ g.tokens_after = g.tokens_before - TokenUnit
             /\ g.tokens_before = rl_last.tokens_before - (n - 1) * TokenUnit
    /\ rl_last.grants /= <<>> =>
          rl_tokens = rl_last.tokens_before - Len(rl_last.grants) * TokenUnit

\* a bucket refilled to its cap and emptied by one dispatch to two waiters
C16_Witness ==
    /\ Len(rl_last.grants) = 2
    /\ rl_last.tokens_before = rl_cfg.burst_size * TokenUnit
    /\ rl_tokens = 0

\* C14: a queued CRITICAL caller is eventually granted a token and returns
\* (unless its task is cancelled), whatever the other callers do.
C14_CriticalEventuallyGranted ==
    \A t \in RLTaskIds :
        (rl_tasks[t].status = "sleeping" /\ rl_tasks[t].prio = CRITICAL)
        ~> \/ (rl_last.task = t /\ rl_last.outcome = "returned")
           \/ rl_tasks[t].status = "cancelled"

\* a CRITICAL caller returns after at least two wake-ups without a token
C14_Witness ==
    /\ rl_last.op = "wake"
    /\ rl_last.outcome = "returned"
    /\ rl_last.prio = CRITICAL
    /\ rl_last.retry_count >= 2

(***************************************************************************)
(* Connector claims                                                        *)
(***************************************************************************)
\* the sleeps of the reconnection in progress, in order
CXSleeps == SelectSeq(cx_trace, LAMBDA e : e.kind = "sleep")

\* how many entries of the trace satisfy Test
CXCount(Test(_)) == Len(SelectSeq(cx_trace, Test))

\* load_markets calls that failed for another reason than authentication
CXFailedAttempts ==
    CXCount(LAMBDA e : e.kind = "call" /\ e.what = "load_markets"
                        /\ e.outcome \in {"network", "other"})

CXCriticals == CXCount(LAMBDA e : e = CXEvent("error.critical"))

\* the trace ends with one error.critical followed by the raise of error
CXEndsCriticalThenRaise(error) ==
    /\ Len(cx_trace) >= 2
    /\ cx_trace[Len(cx_trace) - 1] = CXEvent("error.critical")
    /\ cx_trace[Len(cx_trace)] = CXRaised(error)
    /\ CXCriticals = 1
    /\ cx_result = error
    /\ cx_pc = "done"

\* the waits prescribed for the successive reconnection attempts, in seconds
BackoffSchedule == <<2, 4, 8, 16, 30>>

\* C17: a transient failure of the stream is announced by
\* exchange.disconnected, then at most 5 reconnection attempts are made, the
\* k-th after a sleep of 2, 4, 8, 16, 30 seconds; once the fifth attempt has
\* failed exactly one error.critical is emitted and ExchangeConnectionError
\* is raised out of the streaming loop.
C17_BackoffThenCriticalAfterFiveAttempts ==
    /\ (cx_trace /= <<>> /\ cx_trace[1] = CXCall("watch_ohlcv", "network"))
          => (Len(cx_trace) >= 2 /\ cx_trace[2] = CXEvent("exchange.disconnected"))
    /\ Len(CXSleeps) <= Len(BackoffSchedule)
    /\ \A k \in 1..Len(CXSleeps) : CXSleeps[k].delay = BackoffSchedule[k]
    /\ \A i \in 1..Len(cx_trace) :
          (cx_trace[i].kind = "call" /\ cx_trace[i].what = "load_markets")
             => (i > 1 /\ cx_trace[i - 1].kind = "sleep")
    /\ CXCount(LAMBDA e : e.kind = "call" /\ e.what = "load_markets") <= 5
    /\ CXFailedAttempts < 5 =>
          ~(\E i \in 1..Len(cx_trace) :
               /\ cx_trace[i].kind = "call" /\ cx_trace[i].what = "load_markets"
               /\ cx_trace[i].outcome \in {"network", "other"}
               /\ i < Len(cx_trace) /\ cx_trace[i + 1].kind /= "sleep")
    /\ CXFailedAttempts = 5 => CXEndsCriticalThenRaise("ExchangeConnectionError")

\* the fifth attempt has failed
C17_Witness ==
    /\ CXFailedAttempts = 5
    /\ cx_result = "ExchangeConnectionError"
    /\ Len(CXSleeps) = 5

\* an authentication failure of watch_ohlcv or of load_markets at entry i
CXAuthFailureAt(i) ==
    /\ cx_trace[i].kind = "call"
    /\ cx_trace[i].what \in {"watch_ohlcv", "load_markets"}
    /\ cx_trace[i].outcome = "auth"

\* C18: an authentication failure, in the streaming loop or on any
\* reconnection attempt, is never retried: error.critical is emitted and
\* ExchangeConnectionError is raised at once, with no further attempt or
\* sleep after it.
C18_AuthenticationFailureNeverRetried ==
    \A i \in 1..Len(cx_trace) :
        CXAuthFailureAt(i) =>
            /\ Len(cx_trace) = i + 2
            /\ CXEndsCriticalThenRaise("ExchangeConnectionError")

\* authentication fails on a reconnection attempt that follows a failed one
C18_Witness ==
    /\ \E i \in 1..Len(cx_trace) :
          CXAuthFailureAt(i) /\ cx_trace[i].what = "load_markets"
    /\ CXFailedAttempts >= 1
    /\ cx_pc = "done"

\* position in the trace of the exchange.reconnected event, 0 if none
CXReconnectedAt ==
    IF \E i \in 1..Len(cx_trace) : cx_trace[i] = CXEvent("exchange.reconnected")
    THEN CHOOSE i \in 1..Len(cx_trace) : cx_trace[i] = CXEvent("exchange.reconnected")
    ELSE 0

\* calls of the audit made so far with the given name
CXAuditCalls(what) == CXCount(LAMBDA e : e.kind = "call" /\ e.what = what)

\* the audit has emitted error.critical
CXAuditCritical ==
    \E i \in 1..Len(cx_trace) :
        i > CXReconnectedAt /\ cx_trace[i] = CXEvent("error.critical")

\* the audit has run to its end or has raised
CXAuditOver == CXReconnectedAt > 0 /\ cx_pc \in {"stream", "done"}

\* both fetches of the audit returned (the second is skipped without an
\* open position)
CXAuditFetched ==
    /\ CXAuditOver
    /\ \A i \in 1..Len(cx_trace) :
          (cx_trace[i].kind = "call" /\ i > CXReconnectedAt) => cx_trace[i].outcome = "ok"

\* the exchange holds an open position without a stop order on its closing side
CXUnprotectedOnExchange ==
    \E i \in 1..Len(cx_positions) :
        /\ cx_positions[i].contracts > 0
        /\ ~\E j \in 1..Len(cx_orders) :
               IsStopOrder(cx_orders[j]) /\ cx_orders[j].side = StopSide(cx_positions[i])

\* what the audit does whatever its fetches return: it follows
\* exchange.reconnected, fetches the positions once and the open orders at
\* most once, and places or cancels nothing
CXAuditShape ==
    /\ \A i \in 1..Len(cx_trace) :
          cx_trace[i] = CXCall("load_markets", "ok") =>
              /\ Len(cx_trace) > i /\ cx_trace[i + 1] = CXEvent("exchange.reconnected")
              /\ Len(cx_trace) > i + 1 =>
                    (cx_trace[i + 2].kind = "call" /\ cx_trace[i + 2].what = "fetch_positions")
    /\ \A i \in 1..Len(cx_trace) :
          (cx_trace[i].kind = "call" /\ cx_trace[i].what \in {"fetch_positions", "fetch_open_orders"})
              => (CXReconnectedAt > 0 /\ i > CXReconnectedAt)
    /\ CXAuditOver => CXAuditCalls("fetch_positions") = 1
    /\ CXAuditCalls("fetch_positions") <= 1
    /\ CXAuditCalls("fetch_open_orders") <= 1
    /\ CXAuditCalls("place_order") = 0
    /\ CXAuditCalls("cancel_order") = 0

RollbackCloseRaised ==
    \E i \in 1..Len(te_calls) : IsCloseCall(te_calls[i]) /\ te_calls[i].outcome = "raise"

\* C20: when the rollback's closing order fails in execute_atomic_trade, the
\* unprotected position is surfaced both as an error.critical event and as
\* an error raised to the caller.
C20_UnclosablePositionCriticalAndRaised ==
    (te_pc = "done" /\ RollbackCloseRaised) =>
        (CriticalEmitted /\ te_result = "raised")

(***************************************************************************)
(* Events, preconditions and price levels of execute_atomic_trade          *)
(***************************************************************************)
NumTradeEvents(type) == Cardinality({i \in 1..Len(te_events) : te_events[i] = type})

\* the entry order raised or came back FAILED
EntryNotExecuted ==
    \E i \in 1..Len(te_calls) :
        IsEntryCall(te_calls[i]) /\ te_calls[i].outcome \in {"raise", "FAILED"}

\* C21: a call that passes its preconditions emits exactly one of
\* trade.opened / trade.failed before it returns, trade.opened exactly when
\* the TradeRecord is returned and one trade.failed on every failure path;
\* when the entry order raises or is FAILED no closing order is placed.
C21_ExactlyOneOfOpenedOrFailed ==
    /\ NumTradeEvents("trade.opened") + NumTradeEvents("trade.failed") <= 1
    /\ (te_pc = "done" /\ te_result /= "pending" /\ ~preconditions_fail(te_in)) =>
          /\ NumTradeEvents("trade.opened") + NumTradeEvents("trade.failed") = 1
          /\ NumTradeEvents("trade.opened") = 1 <=> te_result = "record"
          /\ te_result /= "record" =>
                (te_result = "None" /\ NumTradeEvents("trade.failed") = 1)
    /\ EntryNotExecuted => ~CloseSubmitted

\* the entry order came back FAILED and the call has returned
C21_Witness ==
    /\ te_pc = "done"
    /\ \E i \in 1..Len(te_calls) : IsEntryCall(te_calls[i]) /\ te_calls[i].outcome = "FAILED"
    /\ te_events = <<"trade.failed">>
    /\ te_result = "None"

\* C22: a call with quantity <= 0, signal_price <= 0, sl_price <= 0, a pair
\* other than the connector's, or with market rules not loaded raises at
\* once, with no set_leverage or place_order call and no event.
C22_InvalidInputsRaiseWithoutSideEffect ==
    (\/ te_in.quantity <= 0
     \/ te_in.signal_price <= 0
     \/ te_in.sl_price <= 0
     \/ ~te_in.pair_ok
     \/ ~te_in.rules_loaded) =>
        /\ te_calls = <<>>
        /\ te_events = <<>>
        /\ te_pc \in {"validate", "done"}
        /\ te_pc = "done" => te_result = "raised"
        /\ ~ex_pos /\ ~ex_sl

\* the market rules are the only thing missing, and the call has raised
C22_Witness ==
    /\ te_in.quantity > 0 /\ te_in.signal_price > 0 /\ te_in.sl_price > 0
    /\ te_in.pair_ok /\ ~te_in.rules_loaded
    /\ te_pc = "done"
    /\ te_result = "raised"

\* d = |signal price - stop price|
SignalStopDistance == Abs(te_in.signal_price - te_in.sl_price)

\* the levels the claim prescribes for a fill
StopFor(fill) ==
    IF te_in.direction = "LONG" THEN fill - SignalStopDistance ELSE fill + SignalStopDistance

TargetFor(fill) ==
    IF te_in.direction = "LONG" THEN fill + te_in.rr * SignalStopDistance
    ELSE fill - te_in.rr * SignalStopDistance

\* price of the order of the given type sent to the exchange, if one was sent
SentAt(type, price) ==
    \A i \in 1..Len(te_calls) :
        (te_calls[i].op = "place_order" /\ te_calls[i].type = type) => te_calls[i].price = price

TakeProfitFailed ==
    \E i \in 1..Len(te_calls) :
        /\ te_calls[i].type = "TAKE_PROFIT"
        /\ te_calls[i].outcome \in {"raise", "FAILED", "CANCELLED"}

\* C24: when the take-profit order fails after the stop-loss was confirmed,
\* the call still returns the OPEN TradeRecord and emits trade.opened, places
\* no closing order and emits no trade.failed.
C24_TakeProfitFailureKeepsTradeOpen ==
    TakeProfitFailed =>
        /\ te_pc \in {"opened", "done"}
        /\ ~CloseSubmitted
        /\ NumTradeEvents("trade.failed") = 0
        /\ te_pc = "done" => (te_result = "record" /\ te_events = <<"trade.opened">>)

\* the take-profit order raised and the call has returned
C24_Witness ==
    /\ te_pc = "done"
    /\ \E i \in 1..Len(te_calls) :
          te_calls[i].type = "TAKE_PROFIT" /\ te_calls[i].outcome = "raise"
    /\ te_result = "record"

(***************************************************************************)
(* Properties of _handle_trade_closed                                      *)
(***************************************************************************)
\* entries of the handler's trace that satisfy Test
TCCount(Test(_)) == Len(SelectSeq(tc_trace, Test))

\* the invocation has run to its end
HitOver(h) == h.pc \in {"returned", "closed", "failed"}

\* C25: when a known open trade is closed by trade.sl_hit or trade.tp_hit,
\* the trade-result logger is invoked with the TradeResult before the
\* trade.closed event is published.
C25_ResultLoggedBeforeClosedEvent ==
    \A i \in 1..Len(tc_trace) :
        (tc_trace[i].kind = "event" /\ tc_trace[i].what = "trade.closed") =>
            \E j \in 1..(i - 1) :
                /\ tc_trace[j].kind = "call"
                /\ tc_trace[j].what = "log_trade"
                /\ tc_trace[j].trade_id = tc_trace[i].trade_id

\* C26: for every hit whose trade id is among the open trades, the trade
\* leaves the open set, exactly one TradeResult with pnl = free balance after
\* the close - capital_before is recorded and exactly one trade.closed
\* carrying that pnl is emitted; a later hit for the same id, or a hit for an
\* unknown id, makes no exchange call and emits nothing.
C26_EachKnownHitClosesOnce ==
    /\ \A k \in 1..Len(tc_hits) :
          (tc_hits[k].record /= NoRecord /\ HitOver(tc_hits[k])) =>
             LET id == tc_hits[k].trade_id IN
             /\ id \notin DOMAIN tc_open_trades
             /\ id \in DOMAIN tc_closed_trades
             /\ tc_closed_trades[id].pnl =
                   tc_closed_trades[id].capital_after - tc_hits[k].record
             /\ TCCount(LAMBDA e : e.kind = "event" /\ e.what = "trade.closed"
                                    /\ e.trade_id = id) = 1
             /\ TCCount(LAMBDA e : e.kind = "event" /\ e.what = "trade.closed"
                                    /\ e.trade_id = id
                                    /\ e.pnl = tc_closed_trades[id].pnl) = 1
    /\ \A id \in OpenableTradeIds \cup {UnknownTradeId} :
          LET known == {k \in 1..Len(tc_hits) :
                           tc_hits[k].trade_id = id /\ tc_hits[k].record /= NoRecord} IN
          /\ Cardinality(known) <= 1
          /\ TCCount(LAMBDA e : e.kind = "call" /\ e.trade_id = id) <= Cardinality(known)
          /\ TCCount(LAMBDA e : e.kind = "event" /\ e.trade_id = id) <= Cardinality(known)

(***************************************************************************)
(* Timeout of run_crash_recovery                                           *)
(***************************************************************************)
\* the closing order of the recovery has returned
RecoveryCloseReturned ==
    /\ rc_calls /= <<>>
    /\ Last(rc_calls).op = "place_order"
    /\ Last(rc_calls).outcome \notin {"raise", "timeout"}

\* the id was dropped by the loop before the bound expired: it was examined
\* and found without open position, or its position had just been closed
DroppedSoFar(id) ==
    \E j \in 1..Len(rc_ids) :
        /\ rc_ids[j] = id
        /\ \/ j < rc_i /\ ~(FetchedOpenPosition /\ FetchedProtection)
           \/ j = rc_i /\ RecoveryCloseReturned

\* C27: when the wall-clock bound expires at any point of the recovery,
\* run_crash_recovery does not raise: it returns the state, from which
\* exactly the ids dropped so far have been removed.
C27_TimeoutReturnsPartialState ==
    rc_via = "timeout" =>
        /\ rc_result = "state"
        /\ rc_pc = "done"
        /\ rc_state = SelectSeq(rc_file.active_trades, LAMBDA id : ~DroppedSoFar(id))

\* the bound expired after one id had been dropped, others being left
C27_Witness ==
    /\ rc_via = "timeout"
    /\ rc_result = "state"
    /\ Len(rc_state) >= 1
    /\ Len(rc_state) < Len(rc_file.active_trades)

(***************************************************************************)
(* run_live shutdown                                                       *)
(***************************************************************************)
ShutdownOrder ==
    <<"cancel_tasks", "audit", "disconnect", "lock_release", "stop_flag_unlink",
      "app_stopped">>

StepNames == [i \in 1..Len(ap_steps) |-> ap_steps[i].step]

TasksTerminated ==
    /\ ap_candle_task \in {"cancelled", "failed"}
    /\ ap_backup_task = "cancelled"

DisconnectRaised ==
    \E i \in 1..Len(ap_steps) :
        ap_steps[i].step = "disconnect" /\ ap_steps[i].outcome = "raise"

\* C28: once a stop was requested, both background tasks are cancelled and
\* have terminated when the protection audit begins; the steps then taken are
\* audit, disconnect, lock release, stop-marker removal and app.stopped in
\* that order; and whatever the outcome of the audit, a shutdown whose
\* disconnect returned ends with all of them done and both files removed.
C28_ShutdownStepsInOrderAfterTasksAwaited ==
    /\ ap_pc = "audit" => TasksTerminated
    /\ Len(StepNames) <= Len(ShutdownOrder)
    /\ StepNames = SubSeq(ShutdownOrder, 1, Len(StepNames))
    /\ (ap_pc = "done" /\ ~DisconnectRaised) =>
            /\ StepNames = ShutdownOrder
            /\ ap_files = {}

(***************************************************************************)
(* StateManager                                                            *)
(***************************************************************************)
\* C29: a load that follows a crash inside save returns the snapshot of the
\* last save that returned, or the snapshot being saved, whole; it returns
\* None only if no save had returned before.
C29_CrashLeavesPreviousOrNewSnapshot ==
    (st_pc = "crashed" /\ st_loaded /= NotLoaded) =>
        \/ st_loaded = st_previous
        \/ st_loaded = Loaded(st_app_state)

C29_Witness ==
    /\ st_pc = "crashed"
    /\ st_tmp.exists /\ st_tmp.written > 0 /\ st_tmp.written < st_tmp.size
    /\ st_loaded.kind = "state"
    /\ st_loaded = st_previous
    /\ st_loaded /= Loaded(st_app_state)

SameStrategyState(s, t) ==
    /\ s.state = t.state
    /\ s.conditions_met = t.conditions_met
    /\ s.last_condition_candle = t.last_condition_candle
    /\ s.current_trade_id = t.current_trade_id

\* C30: a load that follows a save that returned gives an AppState with the
\* same strategy names, the same state, conditions_met, last_condition_candle
\* and current_trade_id for each of them, and the same active_trades.
C30_SaveThenLoadRoundTrip ==
    (st_pc = "saved" /\ st_loaded /= NotLoaded) =>
        /\ st_loaded.kind = "state"
        /\ DOMAIN st_loaded.state.strategy_states = DOMAIN st_app_state.strategy_states
        /\ \A n \in DOMAIN st_app_state.strategy_states :
              SameStrategyState(st_loaded.state.strategy_states[n],
                                st_app_state.strategy_states[n])
        /\ st_loaded.state.active_trades = st_app_state.active_trades

C30_Witness ==
    /\ st_pc = "saved"
    /\ st_loaded.kind = "state"
    /\ st_nsaves >= 2
    /\ st_app_state.active_trades /= <<>>
    /\ \E n \in DOMAIN st_app_state.strategy_states :
          /\ st_app_state.strategy_states[n].conditions_met /= <<>>
          /\ st_app_state.strategy_states[n].current_trade_id = NoneVal
          /\ st_loaded.state.strategy_states[n] = st_app_state.strategy_states[n]

(***************************************************************************)
(* LockFile                                                                *)
(***************************************************************************)
LockReturned(p) == lk_proc[p].pc \in {"done", "acquired"}

\* C31: when both processes have returned from acquire, at most one of them
\* has acquired; if one has, the other failed with LockError and the file
\* records the pid of the one that acquired.
C31_AtMostOneProcessAcquires ==
    (\A p \in LockProcs : LockReturned(p)) =>
        \A p \in LockProcs :
            lk_proc[p].result = "acquired" =>
                /\ \A q \in LockProcs \ {p} : lk_proc[q].result = "LockError"
                /\ lk_file = LockContent("record", p)

LastCallDuplicateFromWatching ==
    /\ sm_last.op = "on_condition_met"
    /\ sm_last.before.state = "WATCHING"
    /\ ~sm_last.raised
    /\ sm_trace /= <<>>
    /\ \E k \in 1..Len(sm_last.before.conditions_met) :
          sm_last.before.conditions_met[k] = Last(sm_trace).index

\* C33: on_condition_met called in WATCHING never raises, and when its index
\* was already in conditions_met it leaves state, conditions_met,
\* last_condition_candle and current_trade_id as they were and publishes no
\* event.
C33_DuplicateConditionIsNoOp ==
    /\ (sm_last.op = "on_condition_met" /\ sm_last.before.state = "WATCHING") =>
            ~sm_last.raised
    /\ LastCallDuplicateFromWatching =>
            /\ SMFields = sm_last.before
            /\ sm_emitted = <<>>

C33_Witness ==
    /\ LastCallDuplicateFromWatching
    /\ Len(sm_conditions_met) = 1
    /\ sm_last_condition_candle /= NoCandle

(***************************************************************************)
(* RateLimiter: abandoned waiters                                          *)
(***************************************************************************)
\* C37: every token a dispatch deducts goes to a caller that is inside
\* acquire: the caller that ran the dispatch, or one asleep in its waiting
\* loop; never to a waiter whose task was cancelled or has failed.
C37_NoTokenToAbandonedWaiter ==
    \A k \in 1..Len(rl_last.grants) :
        LET t == rl_last.grants[k].task IN
        \/ t = rl_last.task
        \/ rl_tasks[t].status = "sleeping"

(***************************************************************************)
(* RateLimiter.execute                                                     *)
(***************************************************************************)
RateLimitFailures ==
    Cardinality({i \in 1..Len(re_trace) :
                    re_trace[i].op = "call" /\ re_trace[i].outcome = "rate_limit"})

EntryFilledStopUnconfirmed ==
    /\ te_entry /= NoOrder
    /\ Effective(te_entry.status)
    /\ ~\E i \in 1..Len(te_calls) : IsConfirmedSL(te_calls[i])

\* C35: when the call ends by cancellation after its entry order was
\* executed and before a stop-loss order was confirmed, a closing order has
\* been submitted or error.critical has been emitted.
C35_CancellationClosesOrAlerts ==
    (te_result = "cancelled" /\ EntryFilledStopUnconfirmed) =>
        CloseSubmitted \/ CriticalEmitted

(***************************************************************************)
(* EventBus shared by two tasks                                             *)
(***************************************************************************)
\* C36: every handler exception that was raised outside the dispatch of
\* error.recoverable (its task was not inside the error-handling path) has
\* been converted into an error.recoverable event, whatever the other task
\* was doing.
C36_OrdinaryFailureAlwaysConverted ==
    \A i \in 1..Len(bt_failures) :
        ~bt_failures[i].in_error_path => bt_failures[i].converted

(***************************************************************************)
(* A strategy after a failed trade                                          *)
(***************************************************************************)
\* C38: once a signal was emitted and its trade failed, the StateMachine
\* eventually is in IDLE or WATCHING again.
C38_FailedSignalEventuallyLeavesSignalReady ==
    (sy_state = "SIGNAL_READY" /\ sy_trade = "failed") ~>
        (sy_state \in {"IDLE", "WATCHING"})

(***************************************************************************)
(* run_live and a watcher that fails                                        *)
(***************************************************************************)
\* C39: when the watcher task has failed while run_live is in its main
\* loop, run_live eventually leaves the loop, stop request or not.
C39_WatcherFailureEndsMainLoop ==
    (ap_pc = "loop" /\ ap_candle_task = "failed") ~> (ap_pc /= "loop")

(***************************************************************************)
(* run_live: every way out after the lock was acquired                      *)
(***************************************************************************)
\* C40: when run_live has returned or raised, the lock file is removed and
\* app.stopped was emitted.
C40_EveryExitReleasesLockAndEmitsStopped ==
    ap_pc = "done" =>
        /\ "trading.lock" \notin ap_files
        /\ \E i \in 1..Len(ap_steps) : ap_steps[i].step = "app_stopped"

====
